---- MODULE Spec2Model ----
(***************************************************************************)
(* Shrdlite planning core: physics oracle, world successor, heuristic,     *)
(* A* search, planner and the interpreter's clarification dialogue.        *)
(* Columns are numbered from 0 as in the source; a TLA+ sequence is        *)
(* indexed from 1, so column c is stacks[c + 1] and height h of a stack is *)
(* stack[h + 1].                                                           *)
(***************************************************************************)
EXTENDS Integers, Sequences, FiniteSets, TLC

VARIABLES
    stacks, arm, holding,      \* the live world (world.currentState)
    start,                     \* the world as it was when the run began
    trail,                     \* the action tokens applied to the live world
    lit,                       \* the goal literal the heuristic is asked about
    goal,                      \* the interpretation (DNF formula) being planned
    nodes,                     \* the search nodes created so far; node 1 is the start node
    heap,                      \* the stack arrays the nodes' worlds refer to
    queue,                     \* the priority queue, from its root
    cheapest,                  \* the queue element being inspected
    cameFrom,                  \* the parent edges recorded by the search
    pc,                        \* where the planner is
    plan,                      \* the plan returned for the utterance
    preMovableLabels,          \* Interpreter: the movable labels of the last command
    preRelatableLabels,        \* Interpreter: the relatable labels of the last command
    preRelation,               \* Interpreter: the relation of a pending question
    preMessage,                \* Interpreter: the last question asked
    preMovableQuantifier,      \* Interpreter: the stored movable quantifier
    preRelatableQuantifier,    \* Interpreter: the stored relatable quantifier
    ambigousParses,            \* world.currentState.ambigousParses
    heard,                     \* the last utterance
    cmd,                       \* the parse interpreted for the last utterance
    output                     \* what printSystemOutput printed for the last utterance

worldVars == <<stacks, arm, holding, start, trail>>
searchVars == <<goal, nodes, heap, queue, cheapest, cameFrom, pc, plan>>

preVars == <<preMovableLabels, preRelatableLabels, preRelation, preMessage,
             preMovableQuantifier, preRelatableQuantifier>>
dialogueVars == <<preMovableLabels, preRelatableLabels, preRelation, preMessage,
                  preMovableQuantifier, preRelatableQuantifier,
                  ambigousParses, heard, cmd, output>>

vars == <<stacks, arm, holding, start, trail, lit,
          goal, nodes, heap, queue, cheapest, cameFrom, pc, plan,
          preMovableLabels, preRelatableLabels, preRelation, preMessage,
          preMovableQuantifier, preRelatableQuantifier,
          ambigousParses, heard, cmd, output>>

----------------------------------------------------------------------------
(* Bounds *)

MaxTrail == 4        \* longest sequence of successor actions explored
MaxNodes == 40       \* most search nodes one search may create

----------------------------------------------------------------------------
(* Values *)

Null == "null"
Floor == "floor"

\* The world's object table (state.objects): label -> form, size, color.
objects ==
    [l \in {"a", "b", "c", "e", "k", "t", "g", "h", "p", "q", "y", "z", "u"} |->
        CASE l = "a" -> [form |-> "ball",  size |-> "small", color |-> "white"]
          [] l = "b" -> [form |-> "ball",  size |-> "large", color |-> "black"]
          [] l = "c" -> [form |-> "ball",  size |-> "small", color |-> "black"]
          [] l = "e" -> [form |-> "box",   size |-> "large", color |-> "yellow"]
          [] l = "k" -> [form |-> "box",   size |-> "small", color |-> "blue"]
          [] l = "t" -> [form |-> "table", size |-> "large", color |-> "blue"]
          [] l = "g" -> [form |-> "brick", size |-> "large", color |-> "green"]
          [] l = "h" -> [form |-> "brick", size |-> "small", color |-> "white"]
          [] l = "p" -> [form |-> "plank", size |-> "large", color |-> "red"]
          [] l = "q" -> [form |-> "plank", size |-> "small", color |-> "green"]
          [] l = "y" -> [form |-> "pyramid", size |-> "large", color |-> "yellow"]
          [] l = "z" -> [form |-> "pyramid", size |-> "small", color |-> "red"]
          [] l = "u" -> [form |-> "table", size |-> "small", color |-> "red"]]

Labels == DOMAIN objects

getFloor == [form |-> "floor", size |-> Null, color |-> Null]

Last(s) == s[Len(s)]
Front(s) == SubSeq(s, 1, Len(s) - 1)
Abs(x) == IF x < 0 THEN -x ELSE x
Min(x, y) == IF x < y THEN x ELSE y
Max(x, y) == IF x > y THEN x ELSE y

----------------------------------------------------------------------------
(* Physics oracle *)

\* The oracle without its last rule for ontop: a large box goes on a large
\* pyramid.
isPhysicallyCorrectBoxOnPyramid(label1, label2, relation) ==
    LET object1 == IF label1 = Floor THEN getFloor ELSE objects[label1]
        object2 == IF label2 = Floor THEN getFloor ELSE objects[label2]
        f1 == object1.form
        f2 == object2.form
        s1 == object1.size
        s2 == object2.size
        result == label1 # label2
    IN  CASE relation = "inside" ->
               /\ result
               /\ ~(f2 # "box")
               /\ ~(f1 \in {"box", "pyramid", "plank"} /\ (s2 = s1 \/ s2 = "small"))
               /\ ~(s2 = "small" /\ s1 = "large")
          [] relation = "ontop" ->
               /\ result
               /\ ~(f2 = "box")
               /\ ~(s2 = "small" /\ s1 = "large")
               /\ ~(f2 = "ball")
               /\ ~(f1 = "ball" /\ f2 # "floor" /\ f2 # "box")
               /\ ~(s1 = "small" /\ f1 = "box" /\ s2 = "small"
                      /\ f2 \in {"brick", "pyramid"})
          [] relation = "under" ->
               /\ result
               /\ ~(f1 = "ball")
          [] relation = "above" ->
               /\ result
               /\ ~(f2 = "ball")
               /\ ~(s1 = "large" /\ s2 = "small")
          [] OTHER -> result

\* The oracle without its first rule for above: anything goes above a ball.
isPhysicallyCorrectAboveBall(label1, label2, relation) ==
    LET object1 == IF label1 = Floor THEN getFloor ELSE objects[label1]
        object2 == IF label2 = Floor THEN getFloor ELSE objects[label2]
        f1 == object1.form
        f2 == object2.form
        s1 == object1.size
        s2 == object2.size
        result == label1 # label2
    IN  CASE relation = "inside" ->
               /\ result
               /\ ~(f2 # "box")
               /\ ~(f1 \in {"box", "pyramid", "plank"} /\ (s2 = s1 \/ s2 = "small"))
               /\ ~(s2 = "small" /\ s1 = "large")
          [] relation = "ontop" ->
               /\ result
               /\ ~(f2 = "box")
               /\ ~(s2 = "small" /\ s1 = "large")
               /\ ~(f2 = "ball")
               /\ ~(f1 = "ball" /\ f2 # "floor" /\ f2 # "box")
               /\ ~(s1 = "small" /\ f1 = "box" /\ s2 = "small"
                      /\ f2 \in {"brick", "pyramid"})
               /\ ~(s1 = "large" /\ f1 = "box" /\ s2 = "large" /\ f2 = "pyramid")
          [] relation = "under" ->
               /\ result
               /\ ~(f1 = "ball")
          [] relation = "above" ->
               /\ result
               /\ ~(s1 = "large" /\ s2 = "small")
          [] OTHER -> result

isPhysicallyCorrect(label1, label2, relation) ==
    LET object1 == IF label1 = Floor THEN getFloor ELSE objects[label1]
        object2 == IF label2 = Floor THEN getFloor ELSE objects[label2]
        f1 == object1.form
        f2 == object2.form
        s1 == object1.size
        s2 == object2.size
        result == label1 # label2
    IN  CASE relation = "inside" ->
               /\ result
               /\ ~(f2 # "box")
               /\ ~(f1 \in {"box", "pyramid", "plank"} /\ (s2 = s1 \/ s2 = "small"))
               /\ ~(s2 = "small" /\ s1 = "large")
          [] relation = "ontop" ->
               /\ result
               /\ ~(f2 = "box")
               /\ ~(s2 = "small" /\ s1 = "large")
               /\ ~(f2 = "ball")
               /\ ~(f1 = "ball" /\ f2 # "floor" /\ f2 # "box")
               /\ ~(s1 = "small" /\ f1 = "box" /\ s2 = "small"
                      /\ f2 \in {"brick", "pyramid"})
               /\ ~(s1 = "large" /\ f1 = "box" /\ s2 = "large" /\ f2 = "pyramid")
          [] relation = "under" ->
               /\ result
               /\ ~(f1 = "ball")
          [] relation = "above" ->
               /\ result
               /\ ~(f2 = "ball")
               /\ ~(s1 = "large" /\ s2 = "small")
          [] OTHER -> result

----------------------------------------------------------------------------
(* World objects on the heap.  A world object w is a record                *)
(*   [stacks : sequence of references, arm, holding]                       *)
(* and the heap hp is a sequence of stack arrays; a reference is an index  *)
(* of hp.  A world value s is the same record with the stack arrays        *)
(* themselves in place of the references.                                  *)

Deref(w, hp) ==
    [stacks |-> [i \in 1..Len(w.stacks) |-> hp[w.stacks[i]]],
     arm |-> w.arm, holding |-> w.holding]

\* A world value placed on a heap of its own.
OnHeap(s) ==
    [w |-> [stacks |-> [i \in 1..Len(s.stacks) |-> i],
            arm |-> s.arm, holding |-> s.holding],
     hp |-> s.stacks]

\* Mutant: the clone's outer array holds the stack arrays of the original.
ClonedWorldShallow(w, hp) ==
    [w |-> [stacks |-> w.stacks, arm |-> w.arm, holding |-> w.holding],
     hp |-> hp]

\* new ClonedWorld(state): a fresh outer array of fresh copies of the stacks.
ClonedWorld(w, hp) ==
    [w |-> [stacks |-> [i \in 1..Len(w.stacks) |-> Len(hp) + i],
            arm |-> w.arm, holding |-> w.holding],
     hp |-> hp \o [i \in 1..Len(w.stacks) |-> hp[w.stacks[i]]]]

moveLeft(w, hp) == [w |-> [w EXCEPT !.arm = w.arm - 1], hp |-> hp, action |-> "l"]

moveRight(w, hp) == [w |-> [w EXCEPT !.arm = w.arm + 1], hp |-> hp, action |-> "r"]

\* Mutant: the dropped label stays in the arm.
dropKeepsHolding(w, hp) ==
    LET ref == w.stacks[w.arm + 1]
    IN  [w |-> w,
         hp |-> [hp EXCEPT ![ref] = Append(hp[ref], w.holding)],
         action |-> "d"]

drop(w, hp) ==
    LET ref == w.stacks[w.arm + 1]
    IN  [w |-> [w EXCEPT !.holding = Null],
         hp |-> [hp EXCEPT ![ref] = Append(hp[ref], w.holding)],
         action |-> "d"]

pickup(w, hp) ==
    LET ref == w.stacks[w.arm + 1]
    IN  [w |-> [w EXCEPT !.holding = Last(hp[ref])],
         hp |-> [hp EXCEPT ![ref] = Front(hp[ref])],
         action |-> "p"]

\* Mutant: a drop is allowed on any column.
canDropAnywhere(s) == TRUE

\* canDrop and canPickup read a world value.
canDrop(s) ==
    LET stack == s.stacks[s.arm + 1]
        topLabel == IF Len(stack) = 0 THEN Floor ELSE stack[Len(stack)]
    IN  \/ isPhysicallyCorrect(s.holding, topLabel, "ontop")
        \/ isPhysicallyCorrect(s.holding, topLabel, "inside")

canPickup(s) == Len(s.stacks[s.arm + 1]) > 0

\* The test of the edge to the right lets the arm leave the last column.
EdgeActionsOffByOne(w, hp) ==
    LET armpos == w.arm
        s == Deref(w, hp)
    IN  (IF armpos > 0 THEN <<"l">> ELSE <<>>)
        \o (IF armpos < Len(w.stacks) THEN <<"r">> ELSE <<>>)
        \o (IF s.holding = Null
              THEN (IF canPickup(s) THEN <<"p">> ELSE <<>>)
              ELSE (IF canDrop(s) THEN <<"d">> ELSE <<>>))

\* The action functions outgoingEdges hands to addEdge, in the order of its
\* four tests.
EdgeActions(w, hp) ==
    LET armpos == w.arm
        s == Deref(w, hp)
    IN  (IF armpos > 0 THEN <<"l">> ELSE <<>>)
        \o (IF armpos < Len(w.stacks) - 1 THEN <<"r">> ELSE <<>>)
        \o (IF s.holding = Null
              THEN (IF canPickup(s) THEN <<"p">> ELSE <<>>)
              ELSE (IF canDrop(s) THEN <<"d">> ELSE <<>>))

\* addEdge(state, actionFunc): clone the state, apply the action to the clone.
addEdge(w, hp, act) ==
    LET c == ClonedWorld(w, hp)
    IN  CASE act = "l" -> moveLeft(c.w, c.hp)
          [] act = "r" -> moveRight(c.w, c.hp)
          [] act = "p" -> pickup(c.w, c.hp)
          [] act = "d" -> drop(c.w, c.hp)

\* outgoingEdges(node): the edges' target worlds and the heap after the calls.
\* The tests of the third and fourth edge read node.state after the earlier
\* addEdge calls have run.
RECURSIVE AddEdges(_, _, _, _)
AddEdges(w, hp, acts, out) ==
    IF acts = <<>> THEN [edges |-> out, hp |-> hp]
    ELSE LET e == addEdge(w, hp, Head(acts))
         IN  AddEdges(w, e.hp, Tail(acts),
                      Append(out, [w |-> e.w, action |-> e.action, cost |-> 1]))

outgoingEdges(w, hp) == AddEdges(w, hp, EdgeActions(w, hp), <<>>)

\* The successors of a world value: a sequence of [state, action, cost].
Successors(s) ==
    LET o == OnHeap(s)
        r == outgoingEdges(o.w, o.hp)
    IN  [i \in 1..Len(r.edges) |->
            [state |-> Deref(r.edges[i].w, r.hp), action |-> r.edges[i].action,
             cost |-> r.edges[i].cost]]

\* compareNodes without the test of the arm.
compareNodesStacksOnly(state1, state2) ==
    LET stacks1 == state1.stacks
        stacks2 == state2.stacks
    IN  IF Len(stacks1) # Len(stacks2) THEN -1
        ELSE IF \E i \in 1..Len(stacks1) :
                   \/ Len(stacks1[i]) # Len(stacks2[i])
                   \/ \E j \in 1..Len(stacks1[i]) : stacks1[i][j] # stacks2[i][j]
          THEN -1
        ELSE 0

\* compareNodes on the states of two nodes: -1 at the first difference of the
\* arm, the number of stacks, a stack's length or a stack's label; 0 else.
compareNodes(state1, state2) ==
    LET stacks1 == state1.stacks
        stacks2 == state2.stacks
    IN  IF state1.arm # state2.arm THEN -1
        ELSE IF Len(stacks1) # Len(stacks2) THEN -1
        ELSE IF \E i \in 1..Len(stacks1) :
                   \/ Len(stacks1[i]) # Len(stacks2[i])
                   \/ \E j \in 1..Len(stacks1[i]) : stacks1[i][j] # stacks2[i][j]
          THEN -1
        ELSE 0

----------------------------------------------------------------------------
(* Well-formed worlds *)

LabelsIn(s) ==
    UNION {{s.stacks[i][j] : j \in 1..Len(s.stacks[i])} : i \in 1..Len(s.stacks)}

\* Number of places (heights of columns, or the arm) where label l is.
RECURSIVE SumSeq(_)
SumSeq(q) == IF q = <<>> THEN 0 ELSE Head(q) + SumSeq(Tail(q))

CountIn(stack, l) == Cardinality({j \in 1..Len(stack) : stack[j] = l})

Places(s, l) ==
    SumSeq([i \in 1..Len(s.stacks) |-> CountIn(s.stacks[i], l)])
    + (IF s.holding = l THEN 1 ELSE 0)

\* Every adjacent pair, and every bottom object against the floor, is
\* permitted under ontop or inside.
PhysicsOK(s) ==
    \A i \in 1..Len(s.stacks) :
        \A j \in 1..Len(s.stacks[i]) :
            LET upper == s.stacks[i][j]
                lower == IF j = 1 THEN Floor ELSE s.stacks[i][j - 1]
            IN  \/ isPhysicallyCorrect(upper, lower, "ontop")
                \/ isPhysicallyCorrect(upper, lower, "inside")

\* All the ways of putting the labels of set L on n columns.
RECURSIVE Arrangements(_, _)
Arrangements(L, n) ==
    IF L = {} THEN {[i \in 1..n |-> <<>>]}
    ELSE LET l == CHOOSE x \in L : TRUE
             rest == Arrangements(L \ {l}, n)
         IN  UNION {UNION {{[st EXCEPT ![i] =
                                SubSeq(st[i], 1, p) \o <<l>>
                                \o SubSeq(st[i], p + 1, Len(st[i]))]
                             : p \in 0..Len(st[i])}
                           : i \in 1..n}
                    : st \in rest}

\* The well-formed, physically correct worlds with n columns whose objects
\* are exactly the labels of L (one of them possibly held).
WorldsOver(L, n) ==
    LET standing == {[stacks |-> st, arm |-> a, holding |-> Null]
                        : st \in Arrangements(L, n), a \in 0..(n - 1)}
        held == UNION {{[stacks |-> st, arm |-> a, holding |-> x]
                          : st \in Arrangements(L \ {x}, n), a \in 0..(n - 1)}
                       : x \in L}
    IN  {s \in standing \cup held : PhysicsOK(s)}

live == [stacks |-> stacks, arm |-> arm, holding |-> holding]

----------------------------------------------------------------------------
(* Goal literals *)

Literal(relation, args) == [polarity |-> TRUE, relation |-> relation, args |-> args]

BinaryRelations == {"leftof", "rightof", "inside", "ontop", "under", "beside", "above"}

\* A JavaScript number that may be NaN, and an index that may be null, are
\* one-element sequences; NaN and null are the empty sequence.
Num(n) == <<n>>
NaN == <<>>
NullIndex == <<>>
\* ToNumber: null is 0 in arithmetic.
ToNumber(v) == IF v = <<>> THEN 0 ELSE v[1]
Plus(x, y) == IF x = NaN \/ y = NaN THEN NaN ELSE Num(x[1] + y[1])
\* x > y of two numbers: false when either is NaN.
Greater(x, y) == x # NaN /\ y # NaN /\ x[1] > y[1]
LessEq(x, y) == x # NaN /\ y # NaN /\ x[1] <= y[1]

\* Interpreter.findStack: the column of a label, null when it is in no stack.
findStack(label, s) ==
    LET found == {i \in 1..Len(s.stacks) :
                     \E j \in 1..Len(s.stacks[i]) : s.stacks[i][j] = label}
    IN  IF found = {} THEN NullIndex
        ELSE Num((CHOOSE i \in found : \A k \in found : i <= k) - 1)

\* Interpreter.findHeight: the height of a label in a stack, -1 when absent.
findHeight(label, stack) ==
    LET found == {j \in 1..Len(stack) : stack[j] = label}
    IN  IF found = {} THEN -1
        ELSE (CHOOSE j \in found : \A k \in found : j <= k) - 1

\* The labels of columns lo..hi (numbered from 0).
InColumns(s, lo, hi, label) ==
    \E i \in 1..Len(s.stacks) :
        /\ lo <= i - 1 /\ i - 1 <= hi
        /\ \E j \in 1..Len(s.stacks[i]) : s.stacks[i][j] = label

\* isLitTrue with under looking below label1, as above does.
isLitTrueUnderBelow(literal, s) ==
    LET label1 == literal.args[1]
    IN  IF literal.relation = "holding"
          THEN (label1 = s.holding) = literal.polarity
        ELSE IF label1 = s.holding THEN FALSE
        ELSE
          LET label2 == literal.args[2]
              stackIndex == ToNumber(findStack(label1, s))
              stack == s.stacks[stackIndex + 1]
              heightLabel1 == findHeight(label1, stack)
              n == Len(s.stacks)
          IN  CASE literal.relation = "leftof" ->
                     IF InColumns(s, stackIndex + 1, n - 1, label2)
                       THEN literal.polarity ELSE ~literal.polarity
                [] literal.relation = "rightof" ->
                     IF InColumns(s, 0, stackIndex - 1, label2)
                       THEN literal.polarity ELSE ~literal.polarity
                [] literal.relation \in {"inside", "ontop"} ->
                     ((heightLabel1 > 0 /\ stack[heightLabel1] = label2)
                        \/ (heightLabel1 = 0 /\ label2 = Floor)) = literal.polarity
                [] literal.relation = "under" ->
                     IF \E i \in 0..(heightLabel1 - 1) : stack[i + 1] = label2
                       THEN literal.polarity ELSE ~literal.polarity
                [] literal.relation = "beside" ->
                     IF \/ (stackIndex > 0
                              /\ InColumns(s, stackIndex - 1, stackIndex - 1, label2))
                        \/ (stackIndex < n - 1
                              /\ InColumns(s, stackIndex + 1, stackIndex + 1, label2))
                       THEN literal.polarity ELSE ~literal.polarity
                [] literal.relation = "above" ->
                     IF \E i \in 0..(heightLabel1 - 1) : stack[i + 1] = label2
                       THEN literal.polarity ELSE ~literal.polarity
                [] OTHER -> ~literal.polarity

\* Planner.isLitTrue.
isLitTrue(literal, s) ==
    LET label1 == literal.args[1]
    IN  IF literal.relation = "holding"
          THEN (label1 = s.holding) = literal.polarity
        ELSE IF label1 = s.holding THEN FALSE
        ELSE
          LET label2 == literal.args[2]
              stackIndex == ToNumber(findStack(label1, s))
              stack == s.stacks[stackIndex + 1]
              heightLabel1 == findHeight(label1, stack)
              n == Len(s.stacks)
          IN  CASE literal.relation = "leftof" ->
                     IF InColumns(s, stackIndex + 1, n - 1, label2)
                       THEN literal.polarity ELSE ~literal.polarity
                [] literal.relation = "rightof" ->
                     IF InColumns(s, 0, stackIndex - 1, label2)
                       THEN literal.polarity ELSE ~literal.polarity
                [] literal.relation \in {"inside", "ontop"} ->
                     ((heightLabel1 > 0 /\ stack[heightLabel1] = label2)
                        \/ (heightLabel1 = 0 /\ label2 = Floor)) = literal.polarity
                [] literal.relation = "under" ->
                     IF \E i \in (heightLabel1 + 1)..(Len(stack) - 1) :
                            stack[i + 1] = label2
                       THEN literal.polarity ELSE ~literal.polarity
                [] literal.relation = "beside" ->
                     IF \/ (stackIndex > 0
                              /\ InColumns(s, stackIndex - 1, stackIndex - 1, label2))
                        \/ (stackIndex < n - 1
                              /\ InColumns(s, stackIndex + 1, stackIndex + 1, label2))
                       THEN literal.polarity ELSE ~literal.polarity
                [] literal.relation = "above" ->
                     IF \E i \in 0..(heightLabel1 - 1) : stack[i + 1] = label2
                       THEN literal.polarity ELSE ~literal.polarity
                [] OTHER -> ~literal.polarity

----------------------------------------------------------------------------
(* Heuristic *)

\* indexOfFloor: the column whose floor is cheapest to reach from arm a; the
\* first one among equals.
indexOfFloor(s, a) ==
    LET stackCost(i) == Abs(a - i) + 4 * Len(s.stacks[i + 1]) - 1
        cols == 0..(Len(s.stacks) - 1)
    IN  CHOOSE i \in cols :
            /\ \A k \in cols : stackCost(i) <= stackCost(k)
            /\ \A k \in cols : stackCost(k) = stackCost(i) => i <= k

\* The column stepsBetween, costMovingTo and isInSameStack use for a label.
IndexOf(label, s, a) ==
    IF label = Floor THEN Num(indexOfFloor(s, a)) ELSE findStack(label, s)

stepsBetween(l1, l2, s, a) ==
    Abs(ToNumber(IndexOf(l1, s, a)) - ToNumber(IndexOf(l2, s, a)))

\* costMovingTo reads the variable arm of manhattanDistance, which is still
\* undefined when the holding branch calls it: armSet says whether the
\* assignment var arm = state.arm has run.
costMovingTo(label, s, armSet) ==
    IF label = s.holding THEN Num(0)
    ELSE IF ~armSet THEN NaN
    ELSE Num(Abs(s.arm - ToNumber(IndexOf(label, s, s.arm))))

\* costToExpose(label); label1 is the literal's first argument, whose height
\* the function looks up in the stack of label.
costToExpose(label, label1, s) ==
    IF label = s.holding THEN 0
    ELSE IF label = Floor THEN 0
    ELSE LET stackIndex == ToNumber(findStack(label, s))
             stack == s.stacks[stackIndex + 1]
             heightLabel1 == findHeight(label1, stack)
         IN  4 * (Len(stack) - heightLabel1) - 1

isInSameStack(l1, l2, s, a) == IndexOf(l1, s, a) = IndexOf(l2, s, a)

\* manhattanDistance after its first line: the estimate for a literal that
\* does not hold.
distanceWhenFalse(literal, s) ==
      LET label1 == literal.args[1]
      IN  IF literal.relation = "holding"
            THEN Plus(Plus(Num(costToExpose(label1, label1, s)),
                           costMovingTo(label1, s, FALSE)), Num(1))
          ELSE
            LET label2 == literal.args[2]
                a == s.arm
                move(l) == ToNumber(costMovingTo(l, s, TRUE))
                expose(l) == costToExpose(l, label1, s)
                steps(x, y) == stepsBetween(x, y, s, a)
            IN  CASE literal.relation \in {"leftof", "rightof"} ->
                       Num(steps(label1, label2) + 1
                           + Min(expose(label1) + move(label1),
                                 expose(label2) + move(label2)))
                  [] literal.relation \in {"inside", "ontop"} ->
                       Num(Min(move(label1), move(label2))
                           + steps(label1, label2) + 1
                           + (IF isInSameStack(label1, label2, s, a)
                                THEN Max(expose(label1), expose(label2))
                                ELSE expose(label1) + expose(label2)))
                  [] literal.relation = "beside" ->
                       Num(Min(move(label1) + expose(label1),
                               move(label2) + expose(label2))
                           + steps(label1, label2) - 1)
                  [] literal.relation = "under" ->
                       Num(move(label2) + expose(label2) + steps(label2, label1))
                  [] literal.relation = "above" ->
                       Num(move(label1) + expose(label1) + steps(label1, label2))
                  [] OTHER -> Num(0)

\* Mutant: the estimate computed without first asking whether the literal holds.
manhattanDistanceUnchecked(literal, s) == distanceWhenFalse(literal, s)

manhattanDistance(literal, s) ==
    IF isLitTrue(literal, s) THEN Num(0) ELSE distanceWhenFalse(literal, s)

----------------------------------------------------------------------------
(* World successor: the arm actions applied to the live world *)

\* The planner's variables while no search is modelled.
SearchIdle ==
    /\ goal = <<>>
    /\ nodes = <<>>
    /\ heap = <<>>
    /\ queue = <<>>
    /\ cheapest = <<>>
    /\ cameFrom = <<>>
    /\ pc = "idle"
    /\ plan = <<>>

Undefined == "undefined"
NoCommand == [command |-> "none"]
NoUtterance == [kind |-> "none"]

\* The interpreter's variables as the module leaves them when loaded, and the
\* dialogue before anything was said.
DialogueIdle ==
    /\ preMovableLabels = <<>>
    /\ preRelatableLabels = <<>>
    /\ preRelation = Undefined
    /\ preMessage = <<Undefined>>
    /\ preMovableQuantifier = Undefined
    /\ preRelatableQuantifier = Undefined
    /\ ambigousParses = <<>>
    /\ heard = NoUtterance
    /\ cmd = NoCommand
    /\ output = <<>>

StartWorlds ==
    WorldsOver({"a", "e"}, 2) \cup WorldsOver({"a", "b", "e"}, 3)
    \cup WorldsOver({"a", "k", "t"}, 3)

InitWorld ==
    \E s \in StartWorlds :
        /\ stacks = s.stacks
        /\ arm = s.arm
        /\ holding = s.holding
        /\ start = s
        /\ trail = <<>>
        /\ lit = Literal("holding", <<Null>>)
        /\ SearchIdle
        /\ DialogueIdle

\* The live world after the successor edge of the given token.
Apply(token) ==
    \E i \in 1..Len(Successors(live)) :
        LET e == Successors(live)[i]
        IN  /\ e.action = token
            /\ stacks' = e.state.stacks
            /\ arm' = e.state.arm
            /\ holding' = e.state.holding

MoveLeft ==
    /\ Len(trail) < MaxTrail
    /\ Apply("l")
    /\ trail' = Append(trail, "l")
    /\ UNCHANGED <<start, lit, searchVars, dialogueVars>>

MoveRight ==
    /\ Len(trail) < MaxTrail
    /\ Apply("r")
    /\ trail' = Append(trail, "r")
    /\ UNCHANGED <<start, lit, searchVars, dialogueVars>>

Pickup ==
    /\ Len(trail) < MaxTrail
    /\ Apply("p")
    /\ trail' = Append(trail, "p")
    /\ UNCHANGED <<start, lit, searchVars, dialogueVars>>

Drop ==
    /\ Len(trail) < MaxTrail
    /\ Apply("d")
    /\ trail' = Append(trail, "d")
    /\ UNCHANGED <<start, lit, searchVars, dialogueVars>>

NextWorld == MoveLeft \/ MoveRight \/ Pickup \/ Drop

SpecWorld == InitWorld /\ [][NextWorld]_vars

----------------------------------------------------------------------------
(* Heuristic against the true cost: the arm actions applied from a world   *)
(* for which the estimate of one literal was taken.                        *)

\* The literals over the labels of set L.
LiteralsOver(L) ==
    {Literal("holding", <<x>>) : x \in L}
    \cup {Literal(r, <<p[1], p[2]>>) :
             r \in BinaryRelations, p \in {q \in L \X L : q[1] # q[2]}}
    \cup {Literal("ontop", <<x, Floor>>) : x \in L}

LabelsOf(s) == LabelsIn(s) \cup (IF s.holding = Null THEN {} ELSE {s.holding})

HeurWorlds == WorldsOver({"a", "e"}, 3) \cup WorldsOver({"a", "k", "t"}, 2)

InitHeur ==
    \E s \in HeurWorlds :
        /\ stacks = s.stacks
        /\ arm = s.arm
        /\ holding = s.holding
        /\ start = s
        /\ trail = <<>>
        /\ lit \in LiteralsOver(LabelsOf(s))
        /\ SearchIdle
        /\ DialogueIdle

SpecHeur == InitHeur /\ [][NextWorld]_vars

----------------------------------------------------------------------------
(* Planner: goal test, heuristic of a formula, narration *)

Infinity == 1000000

\* goal(node) of planInterpretation.
goalTest(interpretation, s) ==
    \E c \in 1..Len(interpretation) :
        \A k \in 1..Len(interpretation[c]) : isLitTrue(interpretation[c][k], s)

\* The inner loop of heuristics: the largest estimate of the literals, from 0.
RECURSIVE conjunctionHeur(_, _, _)
conjunctionHeur(conjunction, s, acc) ==
    IF conjunction = <<>> THEN acc
    ELSE LET heuristic == manhattanDistance(Head(conjunction), s)
         IN  conjunctionHeur(Tail(conjunction), s,
                             IF Greater(heuristic, Num(acc)) THEN heuristic[1] ELSE acc)

\* The outer loop of heuristics: the smallest conjunction value, from Infinity.
RECURSIVE disjunctionHeur(_, _, _)
disjunctionHeur(interpretation, s, acc) ==
    IF interpretation = <<>> THEN acc
    ELSE LET c == conjunctionHeur(Head(interpretation), s, 0)
         IN  disjunctionHeur(Tail(interpretation), s, IF c < acc THEN c ELSE acc)

heuristics(interpretation, s) == disjunctionHeur(interpretation, s, Infinity)

\* Interpreter.filterLabels: the labels matching size, color and form (null
\* and "anyform" match anything); the floor is no object.
\* The loop stops before the first label of the list.
filterLabelsOffByOne(labels, size, color, form) ==
    LET keep(label) ==
            LET object == IF label = Floor THEN getFloor ELSE objects[label]
            IN  /\ ~(label = Floor /\ form = "anyform")
                /\ (color = Null \/ color = object.color)
                /\ (size = Null \/ size = object.size)
                /\ (form = "anyform" \/ form = object.form)
        rev == [i \in 1..(Len(labels) - 1) |-> labels[Len(labels) + 1 - i]]
    IN  SelectSeq(rev, keep)

filterLabels(labels, size, color, form) ==
    LET keep(label) ==
            LET object == IF label = Floor THEN getFloor ELSE objects[label]
            IN  /\ ~(label = Floor /\ form = "anyform")
                /\ (color = Null \/ color = object.color)
                /\ (size = Null \/ size = object.size)
                /\ (form = "anyform" \/ form = object.form)
        rev == [i \in 1..Len(labels) |-> labels[Len(labels) + 1 - i]]
    IN  SelectSeq(rev, keep)

RECURSIVE Flatten(_)
Flatten(ss) == IF ss = <<>> THEN <<>> ELSE Head(ss) \o Flatten(Tail(ss))

\* minimalInfo: the first of form, size form, color form, size color form
\* that only one label of the world matches; <<size, color, form>>.
minimalInfo(label, s) ==
    IF label = Floor THEN <<Null, Null, Floor>>
    ELSE
      LET obj == objects[label]
          labels == Flatten(s.stacks)
                    \o (IF s.holding # Null THEN <<s.holding>> ELSE <<>>)
          checks == << <<Null, Null, obj.form>>,
                       <<obj.size, Null, obj.form>>,
                       <<Null, obj.color, obj.form>>,
                       <<obj.size, obj.color, obj.form>> >>
          hits == {i \in 1..4 :
                     Len(filterLabels(labels, checks[i][1], checks[i][2],
                                      checks[i][3])) = 1}
      IN  IF hits = {} THEN checks[4]
          ELSE checks[CHOOSE i \in hits : \A k \in hits : i <= k]

\* Entries of a plan: an action token, a narration line, or the null action
\* of the start node.
Token(a) == [kind |-> "action", text |-> <<a>>]
NullEntry == [kind |-> "null", text |-> <<>>]
Moving(desc) == [kind |-> "narration", text |-> <<"Moving the">> \o desc]
AlreadyTrue == [kind |-> "narration", text |-> <<"That is already true!">>]

----------------------------------------------------------------------------
(* A* search *)

NoElement == [element |-> 0, costFromStart |-> 0, heuristic |-> 0]

Estimate(el) == el.costFromStart + el.heuristic

\* push: the new element goes behind the root and behind every following
\* element whose estimate is not larger; a push of a node already met on the
\* way is ignored.
RECURSIVE pushFrom(_, _, _)
pushFrom(q, insertedNode, current) ==
    IF current < Len(q) /\ Estimate(q[current + 1]) <= Estimate(insertedNode)
      THEN IF insertedNode.element = q[current + 1].element THEN q
           ELSE pushFrom(q, insertedNode, current + 1)
      ELSE SubSeq(q, 1, current) \o <<insertedNode>> \o SubSeq(q, current + 1, Len(q))

push(q, node, cost, heuristic) ==
    LET insertedNode == [element |-> node, costFromStart |-> cost,
                         heuristic |-> heuristic]
    IN  IF q = <<>> THEN <<insertedNode>> ELSE pushFrom(q, insertedNode, 1)

\* pop: the root, null when the queue is empty.
pop(q) ==
    IF q = <<>> THEN [cheapestNode |-> NoElement, queue |-> q]
    ELSE [cheapestNode |-> Head(q), queue |-> Tail(q)]

StateOf(n, hp) == Deref(n.w, hp)

\* The body of the for loop over outEdges, from the last edge to the first:
\* ids[i] is the node of outEdges[i].to.
RECURSIVE inspectEdges(_, _, _, _, _, _)
inspectEdges(i, ids, q, cf, allNodes, hp) ==
    IF i = 0 THEN [queue |-> q, cameFrom |-> cf]
    ELSE LET totalCost == 1 + cheapest.costFromStart
             to == ids[i]
             q2 == push(q, to, totalCost,
                        heuristics(goal, StateOf(allNodes[to], hp)))
             foundNode == \E j \in 1..Len(cf) : cf[j].to = to
             cf2 == IF foundNode THEN cf
                    ELSE Append(cf, [from |-> cheapest.element, to |-> to,
                                     cost |-> totalCost])
         IN  inspectEdges(i - 1, ids, q2, cf2, allNodes, hp)

\* The path walk of the reconstruction: path.concat(parent) builds a new array
\* and leaves path as it is, so the walk only moves current to the start.
RECURSIVE walkBack(_, _, _)
walkBack(current, path, cf) ==
    IF current = 1 THEN path
    ELSE LET i == CHOOSE j \in 1..Len(cf) :
                      cf[j].to = current
                      /\ \A k \in 1..Len(cf) : cf[k].to = current => k <= j
             parent == cf[i].from
         IN  walkBack(parent, path, cf)

Reverse(s) == [i \in 1..Len(s) |-> s[Len(s) + 1 - i]]

reconstructPath(cf) == Reverse(walkBack(cheapest.element, <<cheapest.element>>, cf))

\* The loop of planInterpretation over result.path.
RECURSIVE narrate(_, _, _)
narrate(path, hp, state) ==
    IF path = <<>> THEN <<>>
    ELSE LET r == nodes[Head(path)]
             label == r.w.holding
             entry == IF r.action = Null THEN NullEntry ELSE Token(r.action)
         IN  <<entry>>
             \o (IF r.action = "p" THEN <<Moving(minimalInfo(label, state))>>
                 ELSE <<>>)
             \o narrate(Tail(path), hp, state)

\* Planner.plan around planInterpretation.
planOf(path, hp, state) ==
    LET p == narrate(path, hp, state)
    IN  IF Len(p) = 0 THEN <<AlreadyTrue>> ELSE p

\* The live world is the world of the start node.
LiveIs(ns, hp) ==
    LET s == StateOf(ns[1], hp)
    IN  /\ stacks' = s.stacks
        /\ arm' = s.arm
        /\ holding' = s.holding

\* Goal formulas over the labels of set L: every single literal, and some
\* formulas of two conjunctions or two literals.
GoalsOver(L) ==
    {<<<<l>>>> : l \in LiteralsOver(L)}
    \cup {<<<<Literal("holding", <<x>>)>>, <<Literal("ontop", <<x, Floor>>)>>>>
             : x \in L}
    \cup {<<<<Literal("ontop", <<p[1], Floor>>), Literal("leftof", <<p[1], p[2]>>)>>>>
             : p \in {q \in L \X L : q[1] # q[2]}}

PlanWorlds == WorldsOver({"a", "e"}, 3) \cup WorldsOver({"a", "b"}, 1)

\* Planner.plan is called: aStarSearch has pushed and popped the start node.
InitPlan ==
    \E s \in PlanWorlds :
        /\ stacks = s.stacks
        /\ arm = s.arm
        /\ holding = s.holding
        /\ start = s
        /\ trail = <<>>
        /\ lit = Literal("holding", <<Null>>)
        /\ goal \in GoalsOver(LabelsOf(s))
        /\ nodes = <<[w |-> OnHeap(s).w, action |-> Null]>>
        /\ heap = OnHeap(s).hp
        /\ queue = <<>>
        /\ cheapest = [element |-> 1, costFromStart |-> 0, heuristic |-> 0]
        /\ cameFrom = <<>>
        /\ pc = "search"
        /\ plan = <<>>
        /\ DialogueIdle

\* One turn of the while loop: the inspected node is no goal; its edges are
\* pushed and recorded and the next element is popped.
AStarExpand ==
    /\ pc = "search"
    /\ cheapest.element # 0
    /\ ~goalTest(goal, StateOf(nodes[cheapest.element], heap))
    /\ Len(nodes) + 3 <= MaxNodes
    /\ LET out == outgoingEdges(nodes[cheapest.element].w, heap)
           ids == [i \in 1..Len(out.edges) |-> Len(nodes) + i]
           allNodes == nodes \o [i \in 1..Len(out.edges) |->
                                    [w |-> out.edges[i].w,
                                     action |-> out.edges[i].action]]
           r == inspectEdges(Len(out.edges), ids, queue, cameFrom, allNodes, out.hp)
           popped == pop(r.queue)
       IN  /\ nodes' = allNodes
           /\ heap' = out.hp
           /\ cameFrom' = r.cameFrom
           /\ cheapest' = popped.cheapestNode
           /\ queue' = popped.queue
           /\ LiveIs(allNodes, out.hp)
    /\ UNCHANGED <<start, trail, lit, goal, pc, plan, dialogueVars>>

\* The loop test reads cheapest.element of the null that pop returned for an
\* empty queue: a TypeError leaves the planner.
AStarTypeError ==
    /\ pc = "search"
    /\ cheapest.element = 0
    /\ pc' = "TypeError"
    /\ UNCHANGED <<worldVars, lit, goal, nodes, heap, queue, cheapest, cameFrom, plan,
                   dialogueVars>>

\* The inspected node is a goal: the path is reconstructed, planInterpretation
\* turns it into a plan and the plan is returned.
AStarFound ==
    /\ pc = "search"
    /\ cheapest.element # 0
    /\ goalTest(goal, StateOf(nodes[cheapest.element], heap))
    /\ plan' = planOf(reconstructPath(cameFrom), heap, StateOf(nodes[1], heap))
    /\ pc' = "done"
    /\ UNCHANGED <<worldVars, lit, goal, nodes, heap, queue, cheapest, cameFrom,
                   dialogueVars>>

NextPlan == AStarExpand \/ AStarTypeError \/ AStarFound

SpecPlan == InitPlan /\ [][NextPlan]_vars

----------------------------------------------------------------------------
(* Parser values.  A basic object description is [size, color, form] with  *)
(* Null for an attribute that was not said; a description with a relative  *)
(* clause is [object, location].  A message is a sequence of strings.      *)

Obj(size, color, form) == [size |-> size, color |-> color, form |-> form]
RelativeObj(object, location) == [object |-> object, location |-> location]
Entity(quantifier, object) == [quantifier |-> quantifier, object |-> object]
Location(relation, entity) == [relation |-> relation, entity |-> entity]

\* A field of a description, undefined (Null) when the description has none.
Field(o, f) == IF f \in DOMAIN o THEN o[f] ELSE Null

IsRelative(target) == "object" \in DOMAIN target

\* Parser.getPlural.
getPlural(form) ==
    CASE form = "anyform" -> "objects"
      [] form = "box" -> "boxes"
      [] form = "ball" -> "balls"
      [] form = "table" -> "tables"
      [] form = "brick" -> "bricks"
      [] form = "plank" -> "planks"
      [] form = "pyramid" -> "pyramids"
      [] form = "floor" -> "floors"
      [] OTHER -> "undefineds"

\* Parser.prettifyRelation; it throws for any other relation.
prettifyRelation(relation) ==
    CASE relation = "inside" -> "inside of"
      [] relation = "ontop" -> "on top of"
      [] relation = "leftof" -> "to the left of"
      [] relation = "rightof" -> "to the right of"
      [] OTHER -> relation

\* Parser.minimalDescription.
minimalDescription(object, quantifier) ==
    LET size == IF Field(object, "size") = Null THEN <<>> ELSE <<object.size>>
        color == IF Field(object, "color") = Null THEN <<>> ELSE <<object.color>>
        f == Field(object, "form")
        form == IF quantifier = "all" THEN getPlural(f)
                ELSE IF f = "anyform" THEN "object"
                ELSE IF f = Null THEN Undefined ELSE f
    IN  size \o color \o <<form>>

\* entityToString of Parser.intelligentStringify.
RECURSIVE entityToString(_)
entityToString(entity) ==
    IF ~IsRelative(entity.object)
      THEN <<entity.quantifier>> \o minimalDescription(entity.object, entity.quantifier)
    ELSE <<entity.quantifier>>
         \o minimalDescription(entity.object.object, entity.quantifier)
         \o <<"that is", prettifyRelation(entity.object.location.relation)>>
         \o entityToString(entity.object.location.entity)

\* Parser.intelligentStringify of a parse.
intelligentStringify(c) ==
    IF "entity" \notin DOMAIN c
      THEN <<c.command, "it", c.location.relation>> \o entityToString(c.location.entity)
    ELSE IF "location" \notin DOMAIN c
      THEN <<c.command>> \o entityToString(c.entity)
    ELSE <<c.command>> \o entityToString(c.entity)
         \o <<prettifyRelation(c.location.relation)>>
         \o entityToString(c.location.entity)

----------------------------------------------------------------------------
(* Interpreter: resolver *)

\* What a function that may throw gives back.
Thrown(msg) == [thrown |-> TRUE, msg |-> msg]
Returned(v) == [thrown |-> FALSE, value |-> v]

TypeError == <<"TypeError">>

\* The elements of q whose index is in K, in order.
RECURSIVE Pick(_, _, _)
Pick(q, K, i) ==
    IF i > Len(q) THEN <<>>
    ELSE (IF i \in K THEN <<q[i]>> ELSE <<>>) \o Pick(q, K, i + 1)

\* The labels of columns lo..hi (numbered from 0), in order.
ColumnsOf(s, lo, hi) ==
    Flatten([i \in 1..Max(0, Min(hi, Len(s.stacks) - 1) - Max(lo, 0) + 1) |->
                s.stacks[Max(lo, 0) + i]])

\* stack[lo..hi] (heights numbered from 0), in order.
Slice(stack, lo, hi) ==
    [i \in 1..Max(0, Min(hi, Len(stack) - 1) - Max(lo, 0) + 1) |->
        stack[Max(lo, 0) + i]]

\* The end of matchObject for a description with a relative clause: the
\* matching objects whose check holds, or the error when there is none.
possibleTargetsOf(matching, checks, target) ==
    LET rel == target.location.relation
        obj1 == target.object
        obj2 == target.location.entity.object
        quantifier == target.location.entity.quantifier
        failed == {j \in 1..Len(checks) : checks[j].thrown}
        kept == {j \in 1..Len(checks) : ~checks[j].thrown /\ checks[j].value}
        q == IF quantifier = "all" THEN quantifier ELSE "a"
        v == IF quantifier = "all" THEN "are" ELSE "is"
    IN  IF failed # {}
          THEN checks[CHOOSE j \in failed : \A k \in failed : j <= k]
        ELSE IF kept = {}
          THEN IF rel \notin BinaryRelations
                 THEN Thrown(<<"I should not be here...">>)
               ELSE Thrown(<<"There", v, "no">>
                           \o minimalDescription(obj1, quantifier)
                           \o <<prettifyRelation(rel), q>>
                           \o minimalDescription(obj2, quantifier)
                           \o <<".">>)
        ELSE Returned(Pick(matching, kept, 1))

\* The list to check with only the column to the left for "beside".
objectsToCheckLeftOnly(location, s, stackIndex, stack, height) ==
    LET relation == location.relation
        n == Len(s.stacks)
    IN  CASE relation = "leftof" -> ColumnsOf(s, stackIndex + 1, n - 1)
          [] relation = "rightof" -> ColumnsOf(s, 0, stackIndex - 1)
          [] relation = "inside" ->
               IF height > 0 /\ objects[stack[height]].form = "box"
                 THEN <<stack[height]>> ELSE <<>>
          [] relation = "ontop" ->
               IF height > 0 THEN <<stack[height]>>
               ELSE IF Field(location.entity.object, "form") = "floor"
                 THEN <<Floor>> ELSE <<>>
          [] relation = "under" -> Slice(stack, height + 1, Len(stack) - 1)
          [] relation = "beside" ->
               (IF stackIndex > 0 THEN s.stacks[stackIndex] ELSE <<>>)
          [] relation = "above" -> Slice(stack, 0, height - 1)
          [] OTHER -> <<>>

\* The list to clear without the label's own column for "leftof".
objectsToClearOtherColumns(location, s, stackIndex, stack, height) ==
    LET relation == location.relation
        n == Len(s.stacks)
    IN  CASE relation = "leftof" -> ColumnsOf(s, 0, stackIndex - 1)
          [] relation = "rightof" -> ColumnsOf(s, stackIndex, n - 1)
          [] relation = "under" -> Slice(stack, 0, height)
          [] relation = "above" -> Slice(stack, height, Len(stack) - 1)
          [] OTHER -> <<>>

\* The lists checkRelation builds for a label at a height of a stack.
objectsToCheck(location, s, stackIndex, stack, height) ==
    LET relation == location.relation
        n == Len(s.stacks)
    IN  CASE relation = "leftof" -> ColumnsOf(s, stackIndex + 1, n - 1)
          [] relation = "rightof" -> ColumnsOf(s, 0, stackIndex - 1)
          [] relation = "inside" ->
               IF height > 0 /\ objects[stack[height]].form = "box"
                 THEN <<stack[height]>> ELSE <<>>
          [] relation = "ontop" ->
               IF height > 0 THEN <<stack[height]>>
               ELSE IF Field(location.entity.object, "form") = "floor"
                 THEN <<Floor>> ELSE <<>>
          [] relation = "under" -> Slice(stack, height + 1, Len(stack) - 1)
          [] relation = "beside" ->
               (IF stackIndex > 0 THEN s.stacks[stackIndex] ELSE <<>>)
               \o (IF stackIndex < n - 1 THEN s.stacks[stackIndex + 2] ELSE <<>>)
          [] relation = "above" -> Slice(stack, 0, height - 1)
          [] OTHER -> <<>>

objectsToClear(location, s, stackIndex, stack, height) ==
    LET relation == location.relation
        n == Len(s.stacks)
    IN  CASE relation = "leftof" -> ColumnsOf(s, 0, stackIndex)
          [] relation = "rightof" -> ColumnsOf(s, stackIndex, n - 1)
          [] relation = "under" -> Slice(stack, 0, height)
          [] relation = "above" -> Slice(stack, height, Len(stack) - 1)
          [] OTHER -> <<>>

\* The return statements of checkRelation.
checkQuantified(quantifier, toClear, toCheck) ==
    IF quantifier = "all"
      THEN IF toClear.thrown THEN toClear
           ELSE IF Len(toClear.value) # 0 THEN Returned(FALSE)
           ELSE IF toCheck.thrown THEN toCheck
           ELSE Returned(Len(toCheck.value) > 0)
    ELSE IF toCheck.thrown THEN toCheck
    ELSE Returned(Len(toCheck.value) > 0)

RECURSIVE matchObject(_, _, _)
RECURSIVE matchRelative(_, _, _)
RECURSIVE checkRelation(_, _, _)
RECURSIVE checkInStack(_, _, _, _)
RECURSIVE checkAtHeight(_, _, _, _, _)

\* Interpreter.matchObject: the labels of the list that match the target.
matchObject(labels, target, s) ==
    IF ~IsRelative(target)
      THEN Returned(filterLabels(labels, target.size, target.color, target.form))
    ELSE matchRelative(matchObject(labels, target.object, s), target, s)

\* matchObject for a relative clause, from the objects matching its head.
matchRelative(matchingObjs, target, s) ==
    IF matchingObjs.thrown THEN matchingObjs
    ELSE possibleTargetsOf(matchingObjs.value,
                           [j \in 1..Len(matchingObjs.value) |->
                               checkRelation(matchingObjs.value[j], target.location, s)],
                           target)

\* Interpreter.checkRelation: does the object of the label fulfil the location.
checkRelation(label, location, s) ==
    IF label = Floor THEN Returned(FALSE)
    ELSE IF s.holding = label THEN Returned(FALSE)
    ELSE checkInStack(label, location, s, findStack(label, s))

\* checkRelation from the stack index: stacks[null] is undefined.
checkInStack(label, location, s, stackIndex) ==
    IF stackIndex = NullIndex THEN Thrown(TypeError)
    ELSE checkAtHeight(location, s, stackIndex[1], s.stacks[stackIndex[1] + 1],
                       findHeight(label, s.stacks[stackIndex[1] + 1]))

checkAtHeight(location, s, stackIndex, stack, height) ==
    checkQuantified(
        location.entity.quantifier,
        matchObject(objectsToClear(location, s, stackIndex, stack, height),
                    location.entity.object, s),
        matchObject(objectsToCheck(location, s, stackIndex, stack, height),
                    location.entity.object, s))

----------------------------------------------------------------------------
(* Interpreter: validation of a move command *)

\* Interpreter.validateRelation: throws when the relation between the two
\* descriptions breaks a physical law.
validateRelation(object1, object2, rel, quantifier) ==
    LET f1 == Field(object1, "form")
        f2 == Field(object2, "form")
        s1 == Field(object1, "size")
        s2 == Field(object2, "size")
    IN  IF rel = "inside" THEN
            IF f2 # "box"
              THEN Thrown(<<"An object can only be inside of a box.">>)
            ELSE IF f1 \in {"box", "pyramid", "plank"} /\ (s2 = s1 \/ s2 = "small")
                    /\ (s1 # Null \/ s2 # Null)
              THEN Thrown(<<"Boxes can only contain a", f1, "of smaller size than itself.">>)
            ELSE IF s2 = "small" /\ s1 = "large"
              THEN Thrown(<<"Small boxes cannot contain large objects.">>)
            ELSE IF quantifier = "all"
              THEN Thrown(<<"A", IF f1 = "anyform" THEN "n object" ELSE f1,
                            "cannot be inside of several boxes.">>)
            ELSE Returned(TRUE)
        ELSE IF rel = "ontop" THEN
            IF f2 = "box"
              THEN Thrown(<<getPlural(f1), "cannot be on top of a box, only inside it.">>)
            ELSE IF s2 = "small" /\ s1 = "large"
              THEN Thrown(<<"Small", getPlural(f2), "cannot support large", getPlural(f1), ".">>)
            ELSE IF f2 = "ball"
              THEN Thrown(<<"Balls cannot support other objects.">>)
            ELSE IF f1 = "ball" /\ f2 # "floor" /\ f2 # "box"
              THEN Thrown(<<"Balls must be in boxes or on the floor.">>)
            ELSE IF s1 = "small" /\ f1 = "box" /\ s2 = "small"
                    /\ f2 \in {"brick", "pyramid"}
              THEN Thrown(<<"Small boxes cannot be supported by small bricks or pyramids.">>)
            ELSE IF s1 = "large" /\ f1 = "box" /\ s2 = "large" /\ f2 = "pyramid"
              THEN Thrown(<<"Large boxes cannot be supported by large pyramids.">>)
            ELSE IF quantifier = "all"
              THEN Thrown(<<"An object can only be directly on top of one other object.">>)
            ELSE Returned(TRUE)
        ELSE Returned(TRUE)

\* Interpreter.findDestinationObject.
findDestinationObject(c) ==
    IF ~IsRelative(c.location.entity.object) THEN c.location.entity.object
    ELSE c.location.entity.object.object

Without(labels, l) == SelectSeq(labels, LAMBDA x : x # l)

ItselfMessage(ml, relation) ==
    LET rel == CASE relation = "leftof" -> "to the left of"
                 [] relation = "rightof" -> "to the right of"
                 [] relation = "inside" -> relation
                 [] OTHER -> ""
    IN  <<"I cannot put the", objects[ml].size, objects[ml].color,
          objects[ml].form, rel, "itself.">>

\* The two loops at the end of validateParse: i over the movable labels and
\* j over the relatable labels, both lists read again at every turn.
RECURSIVE selfPairs(_, _, _, _, _, _, _, _)
selfPairs(i, j, ml, movableLabels, relatableLabels, mq, lq, relation) ==
    IF j = -1 THEN
        \* the head of the outer loop
        IF i >= Len(movableLabels)
          THEN Returned([movableLabels |-> movableLabels,
                         relatableLabels |-> relatableLabels])
        ELSE IF movableLabels[i + 1] \in {Floor, Null} THEN Thrown(TypeError)
        ELSE selfPairs(i, 0, movableLabels[i + 1], movableLabels, relatableLabels,
                       mq, lq, relation)
    ELSE IF j >= Len(relatableLabels)
      THEN selfPairs(i + 1, -1, ml, movableLabels, relatableLabels, mq, lq, relation)
    ELSE
      LET rl == relatableLabels[j + 1]
          dropMovable == ml = rl /\ mq = "any" /\ lq = "all"
          m2 == IF dropMovable THEN Without(movableLabels, ml) ELSE movableLabels
          dropRelatable == ml = rl /\ mq = "all" /\ lq = "any"
          r2 == IF dropRelatable THEN Without(relatableLabels, rl) ELSE relatableLabels
      IN  IF dropMovable /\ Len(m2) = 0 THEN Thrown(ItselfMessage(ml, relation))
          ELSE IF dropRelatable /\ Len(r2) = 0 THEN Thrown(ItselfMessage(ml, relation))
          ELSE IF ml = rl /\ ((mq = "the" /\ lq = "all")
                               \/ (mq = "all" /\ (lq = "the" \/ lq = "all")))
            THEN Thrown(ItselfMessage(ml, relation))
          ELSE selfPairs(i, j + 1, ml, m2, r2, mq, lq, relation)

\* The test on "ontop" alone: "inside" is left out.
severalOnOneOntopOnly(movableQuantifier, relation, relatableLabels) ==
    /\ movableQuantifier = "all"
    /\ relation = "ontop"
    /\ ~(Len(relatableLabels) = 1 /\ relatableLabels[1] = Floor)

\* validateParse: all the movable objects are to be on top of or inside
\* something that is not the floor alone.
severalOnOne(movableQuantifier, relation, relatableLabels) ==
    /\ movableQuantifier = "all"
    /\ (relation = "ontop" \/ relation = "inside")
    /\ ~(Len(relatableLabels) = 1 /\ relatableLabels[1] = Floor)

\* Interpreter.validateParse.
validateParse(c, movableLabels, relatableLabels, s) ==
    LET obj == IF ~IsRelative(c.entity.object) THEN c.entity.object
               ELSE c.entity.object.object
        destinationObject == findDestinationObject(c)
        movableQuantifier == c.entity.quantifier
        locationQuantifier == c.location.entity.quantifier
        relation == c.location.relation
        stacked == relation = "ontop" \/ relation = "inside"
        related == validateRelation(obj, destinationObject, relation, locationQuantifier)
    IN  IF relation = "inside" /\ Field(destinationObject, "form") # "box"
          THEN Thrown(<<"Objects can only be inside of boxes.">>)
        ELSE IF (movableQuantifier = "all" \/ locationQuantifier = "all")
                /\ \/ (Field(obj, "form") = Field(destinationObject, "form")
                         /\ Field(obj, "form") # "anyform")
                   \/ (Field(obj, "size") = Field(destinationObject, "size")
                         /\ Field(obj, "size") # Null)
                   \/ (Field(obj, "color") = Field(destinationObject, "color")
                         /\ Field(obj, "color") # Null)
          THEN Thrown(<<"This is not physically possible.">>)
        ELSE IF severalOnOne(movableQuantifier, relation, relatableLabels)
                /\ locationQuantifier = "all"
          THEN Thrown(<<"This is just silly, how would I do this?">>)
        ELSE IF severalOnOne(movableQuantifier, relation, relatableLabels)
                /\ locationQuantifier = "the"
          THEN IF relation = "ontop"
                 THEN Thrown(<<"There can only be one object on top of another object.">>)
               ELSE Thrown(<<"A box can only fit one object.">>)
        ELSE IF severalOnOne(movableQuantifier, relation, relatableLabels)
                /\ Len(relatableLabels) < Len(movableLabels)
          THEN Thrown(<<"There are not enough locations for this.">>)
        ELSE IF Len(movableLabels) = 0
          THEN Thrown(<<"I could not find any matching object to move.">>)
        ELSE IF locationQuantifier = "all" /\ stacked
                /\ Len(movableLabels) < Len(relatableLabels)
          THEN Thrown(<<"There are too few objects to move for this.">>)
        ELSE IF related.thrown THEN related
        ELSE selfPairs(0, -1, Null, movableLabels, relatableLabels,
                       movableQuantifier, locationQuantifier, relation)

----------------------------------------------------------------------------
(* Interpreter: goal compiler *)

\* The pairs <<l1, l2>> of two lists, the first list outermost.
Pairs(labels1, labels2) ==
    [k \in 1..(Len(labels1) * Len(labels2)) |->
        <<labels1[((k - 1) \div Len(labels2)) + 1],
          labels2[((k - 1) % Len(labels2)) + 1]>>]

\* One conjunction of one literal for every pair, physically correct or not.
buildDisjunctionUnchecked(labels1, labels2, relation) ==
    LET ok == Pairs(labels1, labels2)
    IN  [k \in 1..Len(ok) |-> <<Literal(relation, <<ok[k][1], ok[k][2]>>)>>]

\* getDNFFormula.buildDisjunction: one conjunction of one literal for every
\* physically correct pair.
buildDisjunction(labels1, labels2, relation) ==
    LET ok == SelectSeq(Pairs(labels1, labels2),
                        LAMBDA p : isPhysicallyCorrect(p[1], p[2], relation))
    IN  [k \in 1..Len(ok) |-> <<Literal(relation, <<ok[k][1], ok[k][2]>>)>>]

\* getDNFFormula.buildCNF: for every label of the first list the disjunction
\* of its physically correct literals, left out when it is empty.
buildCNF(labels1, labels2, reversedLocation, relation) ==
    LET disjunction(l1) ==
            LET ok == SelectSeq(labels2,
                         LAMBDA l2 : IF reversedLocation
                                       THEN isPhysicallyCorrect(l2, l1, relation)
                                     ELSE isPhysicallyCorrect(l1, l2, relation))
            IN  [k \in 1..Len(ok) |->
                    IF reversedLocation THEN Literal(relation, <<ok[k], l1>>)
                    ELSE Literal(relation, <<l1, ok[k]>>)]
        all == [i \in 1..Len(labels1) |-> disjunction(labels1[i])]
    IN  SelectSeq(all, LAMBDA d : Len(d) > 0)

\* getDNFFormula.buildConjunction: the literals of every physically correct pair.
buildConjunction(labels1, labels2, relation) ==
    LET ok == SelectSeq(Pairs(labels1, labels2),
                        LAMBDA p : isPhysicallyCorrect(p[1], p[2], relation))
    IN  [k \in 1..Len(ok) |-> Literal(relation, <<ok[k][1], ok[k][2]>>)]

\* The formulas dfs of conjunctionToDisjunction reaches: one literal of every
\* disjunction, in the order of the walk.
RECURSIVE dfs(_)
dfs(conjunction) ==
    IF conjunction = <<>> THEN << <<>> >>
    ELSE LET rest == dfs(Tail(conjunction))
             first == Head(conjunction)
         IN  Flatten([j \in 1..Len(first) |->
                         [k \in 1..Len(rest) |-> <<first[j]>> \o rest[k]]])

\* getDNFFormula.conjunctionToDisjunction; an empty conjunction makes it read
\* formula[0].relation of undefined.
conjunctionToDisjunction(conjunction) ==
    IF conjunction = <<>> THEN Thrown(TypeError)
    ELSE
      LET keep(formula) ==
              ~(/\ formula[1].relation \in {"inside", "ontop"}
                /\ \E i1, i2 \in 1..Len(formula) :
                       i1 < i2 /\ formula[i1].args[2] = formula[i2].args[2])
      IN  Returned(SelectSeq(dfs(conjunction), keep))

\* The end of getDNFFormula: an empty interpretation is an error.
orCannotDoThat(interpretation) ==
    IF interpretation.thrown THEN interpretation
    ELSE IF Len(interpretation.value) = 0 THEN Thrown(<<"I cannot do that.">>)
    ELSE interpretation

\* Interpreter.getDNFFormula.
getDNFFormula(movableLabels0, relatableLabels, relation, movableQuantifier, locationQuantifier, s) ==
    LET movableLabels == Without(movableLabels0, Floor)
    IN  IF relation # "holding" /\ relatableLabels # <<>>
           /\ \E i \in 1..Len(movableLabels) : movableLabels[i] = Null
          THEN Thrown(TypeError)
        ELSE orCannotDoThat(
            IF movableQuantifier = "all" THEN
                IF locationQuantifier = "any"
                  THEN conjunctionToDisjunction(
                           buildCNF(movableLabels, relatableLabels, FALSE, relation))
                ELSE IF relation = "holding"
                  THEN Returned(<< <<Literal(relation,
                                      <<IF movableLabels = <<>> THEN Undefined
                                        ELSE movableLabels[1]>>)>> >>)
                ELSE Returned(<<buildConjunction(movableLabels, relatableLabels, relation)>>)
            ELSE IF movableQuantifier = "any" \/ movableQuantifier = "the" THEN
                IF locationQuantifier = "all"
                  THEN conjunctionToDisjunction(
                           buildCNF(relatableLabels, movableLabels, TRUE, relation))
                ELSE IF relation = "holding"
                  THEN Returned([i \in 1..Len(movableLabels) |->
                                    <<Literal(relation, <<movableLabels[i]>>)>>])
                ELSE Returned(buildDisjunction(movableLabels, relatableLabels, relation))
            ELSE Returned(<<>>))

----------------------------------------------------------------------------
(* Interpreter: clarification question *)

Count(n) == <<"0", "1", "2", "3", "4", "5", "6", "7", "8", "9">>[n + 1]

\* Interpreter.findSimilarities.
findSimilarities(labels, plural) ==
    LET obj1 == objects[labels[1]]
        sameForm == \A i \in 1..Len(labels) : objects[labels[i]].form = obj1.form
        sameColor == \A i \in 1..Len(labels) : objects[labels[i]].color = obj1.color
        sameSize == \A i \in 1..Len(labels) : objects[labels[i]].size = obj1.size
    IN  (IF sameSize THEN <<obj1.size>> ELSE <<>>)
        \o (IF sameColor THEN <<obj1.color>> ELSE <<>>)
        \o (IF sameForm THEN <<IF plural THEN getPlural(obj1.form) ELSE obj1.form>>
            ELSE <<IF plural THEN "objects" ELSE "object">>)

\* Interpreter.findDifference for at most two labels: the first of form,
\* color form, size form that no other object of the list shares.
findDifference(label, labels) ==
    LET object == objects[label]
        others == {labels[i] : i \in 1..Len(labels)} \ {label}
        uniqueForm == \A l \in others : objects[l].form # object.form
        uniqueColor == \A l \in others : objects[l].color # object.color
        uniqueSize == \A l \in others : objects[l].size # object.size
    IN  IF uniqueForm THEN Returned(<<object.form>>)
        ELSE IF uniqueColor THEN Returned(<<object.color, object.form>>)
        ELSE IF uniqueSize THEN Returned(<<object.size, object.form>>)
        ELSE Thrown(<<"Something went wrong, no difference found.">>)

\* The loop of clarificationMessage over two labels at most.
differences(labels, found) ==
    LET failed == {i \in 1..Len(found) : found[i].thrown}
    IN  IF failed # {}
          THEN found[CHOOSE i \in failed : \A k \in failed : i <= k]
        ELSE Returned(Flatten([i \in 1..Len(found) |->
                                  found[i].value
                                  \o (IF i < Len(labels) THEN <<"or the">> ELSE <<>>)]))

\* The message of clarificationMessage from its differences.  asked says that
\* the message is a question and is the new preMessage; otherwise it is an
\* error that leaves preMessage alone.
questionOf(d) ==
    IF d.thrown THEN [asked |-> FALSE, msg |-> d.msg]
    ELSE [asked |-> TRUE, msg |-> <<"Do you mean the">> \o d.value \o <<"?">>]

\* Interpreter.clarificationMessage.
clarificationMessage(labels) ==
    IF \E i \in 1..Len(labels) : labels[i] \in {Floor, Null}
      THEN [asked |-> FALSE, msg |-> TypeError]
    ELSE IF Len(labels) > 2
      THEN [asked |-> TRUE,
            msg |-> <<"There are", Count(Len(labels))>>
                    \o findSimilarities(labels, TRUE)
                    \o <<", which one do you mean?">>]
    ELSE questionOf(differences(labels, [i \in 1..Len(labels) |->
                                            findDifference(labels[i], labels)]))

IsQuestion(msg) == msg # <<>> /\ msg[1] \in {"Do you mean the", "There are"}

----------------------------------------------------------------------------
(* Interpreter: interpretCommand.  The module variables pre... are passed  *)
(* as one record p and come back as the field pre of the result, whether   *)
(* the function returns or throws.                                         *)

pre ==
    [MovableLabels |-> preMovableLabels,
     RelatableLabels |-> preRelatableLabels,
     Relation |-> preRelation,
     Message |-> preMessage,
     MovableQuantifier |-> preMovableQuantifier,
     RelatableQuantifier |-> preRelatableQuantifier]

IsNull(v) == v = Null \/ v = Undefined

NotAnOption == <<"That was not one of the options I asked for. ">>

\* The labels of a reply matched against the preselected ones: none of them
\* is the error with the saved prompt.
oneOfTheOptions(ls, p1, message) ==
    IF ls.thrown THEN [pre |-> p1, res |-> ls]
    ELSE IF Len(ls.value) = 0
      THEN [pre |-> p1, res |-> Thrown(NotAnOption \o message)]
    ELSE [pre |-> p1, res |-> ls]

\* interpretCommand.getMovingLables.
getMovingLables(c, s, p, movableQuantifier, labels) ==
    IF ~IsNull(p.Relation) THEN
        IF Len(p.MovableLabels) > 1 /\ p.MovableQuantifier = "the"
          THEN oneOfTheOptions(matchObject(p.MovableLabels, c.entity.object, s),
                               [p EXCEPT !.MovableQuantifier = movableQuantifier],
                               p.Message)
        ELSE [pre |-> p, res |-> Returned(p.MovableLabels)]
    ELSE [pre |-> [p EXCEPT !.MovableQuantifier = movableQuantifier],
          res |-> matchObject(labels, c.entity.object, s)]

\* interpretCommand.getRelatedLabels.
getRelatedLabels(c, s, p, movableQuantifier, locationQuantifier, labels) ==
    IF ~IsNull(p.Relation) THEN
        IF Len(p.MovableLabels) <= 1 \/ p.MovableQuantifier = "any"
          THEN oneOfTheOptions(matchObject(p.RelatableLabels, c.entity.object, s),
                               [p EXCEPT !.RelatableQuantifier = movableQuantifier],
                               p.Message)
        ELSE [pre |-> p, res |-> Returned(p.RelatableLabels)]
    ELSE [pre |-> [p EXCEPT !.RelatableQuantifier = locationQuantifier],
          res |-> matchObject(labels, c.location.entity.object, s)]

\* The question is thrown; it is the new preMessage when it is one.
ask(m, p1) ==
    [pre |-> IF m.asked THEN [p1 EXCEPT !.Message = m.msg] ELSE p1,
     res |-> Thrown(m.msg)]

\* The end of interpretCommand with the movable side only: a question about
\* the relatable labels is never asked.
askOrCompileMovableOnly(movableLabels, relatableLabels, relation, movableQuantifier, locationQuantifier, p, s) ==
    IF Len(movableLabels) > 1 /\ p.MovableQuantifier = "the"
      THEN ask(clarificationMessage(movableLabels), [p EXCEPT !.Relation = relation])
    ELSE [pre |-> [p EXCEPT !.Relation = Null],
          res |-> getDNFFormula(movableLabels, relatableLabels, relation,
                                movableQuantifier, locationQuantifier, s)]

\* The end of interpretCommand with the relation kept when the formula is
\* compiled.
askOrCompileKeepsRelation(movableLabels, relatableLabels, relation, movableQuantifier, locationQuantifier, p, s) ==
    IF (Len(movableLabels) > 1 \/ Len(relatableLabels) > 1)
       /\ Len(movableLabels) > 1 /\ p.MovableQuantifier = "the"
      THEN ask(clarificationMessage(movableLabels), [p EXCEPT !.Relation = relation])
    ELSE IF (Len(movableLabels) > 1 \/ Len(relatableLabels) > 1)
            /\ Len(relatableLabels) > 1 /\ p.RelatableQuantifier = "the"
      THEN ask(clarificationMessage(relatableLabels), [p EXCEPT !.Relation = relation])
    ELSE [pre |-> [p EXCEPT !.Relation = relation],
          res |-> getDNFFormula(movableLabels, relatableLabels, relation,
                                movableQuantifier, locationQuantifier, s)]

\* The end of interpretCommand: with more than one label on a side whose
\* stored quantifier is "the" the question is thrown and the relation kept;
\* otherwise the relation is cleared and the formula is compiled.
askOrCompile(movableLabels, relatableLabels, relation, movableQuantifier, locationQuantifier, p, s) ==
    IF (Len(movableLabels) > 1 \/ Len(relatableLabels) > 1)
       /\ Len(movableLabels) > 1 /\ p.MovableQuantifier = "the"
      THEN ask(clarificationMessage(movableLabels), [p EXCEPT !.Relation = relation])
    ELSE IF (Len(movableLabels) > 1 \/ Len(relatableLabels) > 1)
            /\ Len(relatableLabels) > 1 /\ p.RelatableQuantifier = "the"
      THEN ask(clarificationMessage(relatableLabels), [p EXCEPT !.Relation = relation])
    ELSE [pre |-> [p EXCEPT !.Relation = Null],
          res |-> getDNFFormula(movableLabels, relatableLabels, relation,
                                movableQuantifier, locationQuantifier, s)]

\* The labels are stored and the command is finished.
storeAndFinish(movableLabels, relatableLabels, relation, movableQuantifier, locationQuantifier, p, s) ==
    askOrCompile(movableLabels, relatableLabels, relation,
                 movableQuantifier, locationQuantifier,
                 [p EXCEPT !.MovableLabels = movableLabels,
                           !.RelatableLabels = relatableLabels], s)

\* The labels interpretCommand resolves a fresh command against.
WorldLabels(s) ==
    <<Floor>> \o Flatten(s.stacks)
    \o (IF s.holding # Null THEN <<s.holding>> ELSE <<>>)

\* interpretCommand, the putdown branch, from the related labels.
interpretPutdown(r, relation, movableQuantifier, locationQuantifier, s) ==
    IF r.res.thrown THEN r
    ELSE storeAndFinish(<<s.holding>>, r.res.value, relation, movableQuantifier,
                        locationQuantifier, r.pre, s)

\* interpretCommand, the pickup branch, from the moving labels.
interpretPickup(m, obj, relation, movableQuantifier, locationQuantifier, s) ==
    LET form == IF Field(obj, "form") = "anyform" THEN "object"
                ELSE IF Field(obj, "form") = Null THEN Undefined
                ELSE obj.form
        col == IF Field(obj, "color") = Null THEN <<>> ELSE <<obj.color>>
        size == IF Field(obj, "size") = Null THEN <<>> ELSE <<obj.size>>
    IN  IF m.res.thrown THEN m
        ELSE IF Len(m.res.value) = 0
          THEN [pre |-> m.pre,
                res |-> Thrown(<<"There is no">> \o size \o col \o <<form, ".">>)]
        ELSE IF movableQuantifier = "all" /\ Len(m.res.value) > 1
          THEN [pre |-> m.pre,
                res |-> Thrown(<<"I can only hold one object at a time.">>)]
        ELSE storeAndFinish(m.res.value, <<>>, relation, movableQuantifier,
                            locationQuantifier, m.pre, s)

\* interpretCommand, the move branch, from the validated labels.
interpretValidated(updatedLabels, relation, movableQuantifier, locationQuantifier, p, s) ==
    IF updatedLabels.thrown THEN [pre |-> p, res |-> updatedLabels]
    ELSE storeAndFinish(updatedLabels.value.movableLabels,
                        updatedLabels.value.relatableLabels, relation,
                        movableQuantifier, locationQuantifier, p, s)

\* interpretCommand, the move branch, from the related labels.
interpretRelated(r, movableLabels, c, wasAmbigous, relation, movableQuantifier, locationQuantifier, s) ==
    IF r.res.thrown THEN r
    ELSE IF wasAmbigous
      THEN storeAndFinish(movableLabels, r.res.value, relation, movableQuantifier,
                          locationQuantifier, r.pre, s)
    ELSE interpretValidated(validateParse(c, movableLabels, r.res.value, s),
                            relation, movableQuantifier, locationQuantifier,
                            r.pre, s)

\* interpretCommand, the move branch, from the moving labels.
interpretMove(m, c, wasAmbigous, relation, movableQuantifier, locationQuantifier, labels, s) ==
    IF m.res.thrown THEN m
    ELSE interpretRelated(getRelatedLabels(c, s, m.pre, movableQuantifier,
                                           locationQuantifier, labels),
                          m.res.value, c, wasAmbigous, relation, movableQuantifier,
                          locationQuantifier, s)

\* interpretCommand without the reset of preRelation by a fresh command.
interpretCommandKeepsRelation(c, s, p0) ==
    LET labels == WorldLabels(s)
        isSpecification == c.command = "specification"
        isPutdown == IF isSpecification THEN FALSE
                     ELSE "entity" \notin DOMAIN c \/ p0.Relation = ""
        isPickup == IF isSpecification THEN p0.Relation = "holding"
                    ELSE "location" \notin DOMAIN c
        relation == IF isSpecification THEN p0.Relation
                    ELSE IF isPickup THEN "holding" ELSE c.location.relation
        p1 == p0
        wasAmbigous == ~IsNull(p1.Relation)
        movableQuantifier == IF isPutdown THEN "any" ELSE c.entity.quantifier
        locationQuantifier == IF isPickup THEN Undefined
                              ELSE IF wasAmbigous THEN c.entity.quantifier
                              ELSE c.location.entity.quantifier
    IN  IF isSpecification /\ IsNull(p0.Relation)
          THEN [pre |-> p0, res |-> Thrown(<<"I beg your pardon?">>)]
        ELSE IF isPutdown
          THEN interpretPutdown(getRelatedLabels(c, s, p1, movableQuantifier,
                                                 locationQuantifier, labels),
                                relation, movableQuantifier, locationQuantifier, s)
        ELSE IF isPickup
          THEN interpretPickup(getMovingLables(c, s, p1, movableQuantifier, labels),
                               c.entity.object, relation, movableQuantifier,
                               locationQuantifier, s)
        ELSE interpretMove(getMovingLables(c, s, p1, movableQuantifier, labels),
                           c, wasAmbigous, relation, movableQuantifier,
                           locationQuantifier, labels, s)

\* Interpreter.interpretCommand.
interpretCommand(c, s, p0) ==
    LET labels == WorldLabels(s)
        isSpecification == c.command = "specification"
        isPutdown == IF isSpecification THEN FALSE
                     ELSE "entity" \notin DOMAIN c \/ p0.Relation = ""
        isPickup == IF isSpecification THEN p0.Relation = "holding"
                    ELSE "location" \notin DOMAIN c
        relation == IF isSpecification THEN p0.Relation
                    ELSE IF isPickup THEN "holding" ELSE c.location.relation
        p1 == IF isSpecification THEN p0 ELSE [p0 EXCEPT !.Relation = Null]
        wasAmbigous == ~IsNull(p1.Relation)
        movableQuantifier == IF isPutdown THEN "any" ELSE c.entity.quantifier
        locationQuantifier == IF isPickup THEN Undefined
                              ELSE IF wasAmbigous THEN c.entity.quantifier
                              ELSE c.location.entity.quantifier
    IN  IF isSpecification /\ IsNull(p0.Relation)
          THEN [pre |-> p0, res |-> Thrown(<<"I beg your pardon?">>)]
        ELSE IF isPutdown
          THEN interpretPutdown(getRelatedLabels(c, s, p1, movableQuantifier,
                                                 locationQuantifier, labels),
                                relation, movableQuantifier, locationQuantifier, s)
        ELSE IF isPickup
          THEN interpretPickup(getMovingLables(c, s, p1, movableQuantifier, labels),
                               c.entity.object, relation, movableQuantifier,
                               locationQuantifier, s)
        ELSE interpretMove(getMovingLables(c, s, p1, movableQuantifier, labels),
                           c, wasAmbigous, relation, movableQuantifier,
                           locationQuantifier, labels, s)

----------------------------------------------------------------------------
(* Interpreter.interpret and Planner.plan: every input is tried in order,   *)
(* the results of those that succeed are collected, and when none succeeds  *)
(* the first of the collected errors is thrown.                             *)

\* The last of the collected errors.
lastOf(errors) == errors[Len(errors)]

\* throw errors[0].
firstOf(errors) == errors[1]

RECURSIVE interpretEach(_, _, _, _, _)
RECURSIVE interpretNext(_, _, _, _, _)

\* The forEach loop of Interpreter.interpret; the module variables p go from
\* one call of interpretCommand to the next.
interpretEach(parses, s, p, interpretations, errors) ==
    IF parses = <<>>
      THEN [pre |-> p, interpretations |-> interpretations, errors |-> errors]
    ELSE interpretNext(interpretCommand(Head(parses), s, p), parses, s,
                       interpretations, errors)

\* The try and the catch of the loop.
interpretNext(r, parses, s, interpretations, errors) ==
    IF r.res.thrown
      THEN interpretEach(Tail(parses), s, r.pre, interpretations,
                         Append(errors, r.res.msg))
    ELSE interpretEach(Tail(parses), s, r.pre,
                       Append(interpretations,
                              [parse |-> Head(parses),
                               interpretation |-> r.res.value]),
                       errors)

\* The end of Interpreter.interpret.
interpreted(r) ==
    [pre |-> r.pre,
     res |-> IF Len(r.interpretations) > 0 THEN Returned(r.interpretations)
             ELSE Thrown(firstOf(r.errors))]

\* Interpreter.interpret.
interpret(parses, s, p) == interpreted(interpretEach(parses, s, p, <<>>, <<>>))

\* The formula of the first interpretation: Shrdlite plans the
\* interpretations and takes plans[0].
firstInterpretation(r) ==
    IF r.res.thrown THEN r
    ELSE [pre |-> r.pre, res |-> Returned(r.res.value[1].interpretation)]

\* Planner.plan over the outcomes of planInterpretation for its inputs: a
\* plan without entries becomes "That is already true!".
RECURSIVE planEach(_, _, _)
planEach(outcomes, plans, errors) ==
    IF outcomes = <<>> THEN [plans |-> plans, errors |-> errors]
    ELSE IF Head(outcomes).thrown
      THEN planEach(Tail(outcomes), plans, Append(errors, Head(outcomes).msg))
    ELSE planEach(Tail(outcomes),
                  Append(plans, IF Len(Head(outcomes).value) = 0 THEN <<AlreadyTrue>>
                                ELSE Head(outcomes).value),
                  errors)

planned(r) ==
    IF Len(r.plans) > 0 THEN Returned(r.plans) ELSE Thrown(r.errors[1])

PlannerPlan(outcomes) == planned(planEach(outcomes, <<>>, <<>>))

----------------------------------------------------------------------------
(* Shrdlite: one utterance through the pipeline *)

\* An utterance is a number, or a text with the parses the parser finds for
\* it (none: the parser throws).
Number(n) == [kind |-> "number", n |-> n]
Text(parses) == [kind |-> "text", parses |-> parses]

take(entity) == [command |-> "take", entity |-> entity]
move(entity, location) == [command |-> "move", entity |-> entity, location |-> location]
put(location) == [command |-> "put", location |-> location]
specification(entity) == [command |-> "specification", entity |-> entity]

SorryNumber(n) ==
    <<"Sorry, but", Count(n),
      "was not one of the options I gave you. Please choose the number of the utterance you had in mind or give me new instructions.">>
SorryParse == <<"Sorry I cannot understand this, please try again.">>
PleaseChoose ==
    <<"Please choose the number of the utterance you had in mind or give me new instructions.">>

\* No search is made for the utterance: nothing is planned.
NoSearch ==
    /\ goal' = <<>>
    /\ nodes' = <<>>
    /\ heap' = <<>>
    /\ queue' = <<>>
    /\ cheapest' = <<>>
    /\ cameFrom' = <<>>
    /\ pc' = "idle"
    /\ plan' = <<>>

\* Planner.plan is called with the interpretation: aStarSearch has pushed and
\* popped the start node, whose state is the live world.
StartSearch(interpretation) ==
    /\ goal' = interpretation
    /\ nodes' = <<[w |-> OnHeap(live).w, action |-> Null]>>
    /\ heap' = OnHeap(live).hp
    /\ queue' = <<>>
    /\ cheapest' = [element |-> 1, costFromStart |-> 0, heuristic |-> 0]
    /\ cameFrom' = <<>>
    /\ pc' = "search"
    /\ plan' = <<>>

SetPre(p) ==
    /\ preMovableLabels' = p.MovableLabels
    /\ preRelatableLabels' = p.RelatableLabels
    /\ preRelation' = p.Relation
    /\ preMessage' = p.Message
    /\ preMovableQuantifier' = p.MovableQuantifier
    /\ preRelatableQuantifier' = p.RelatableQuantifier

\* The interpretation and planning part of parseUtteranceIntoPlan: the error
\* of the interpreter is printed, or the planner is called.
interpretAndPlan(r, said) ==
    /\ SetPre(r.pre)
    /\ IF r.res.thrown
         THEN output' = said \o <<r.res.msg>> /\ NoSearch
       ELSE output' = said /\ StartSearch(r.res.value)

\* The first pending parse, whatever number is entered.
selectedParseFirst(n) == ambigousParses[1]

\* The pending parse with the entered number (ambigousParses[enteredNumber - 1]
\* of a list that starts at 0).
selectedParse(n) == ambigousParses[n]

\* Shrdlite.parseUtteranceIntoPlan up to the call of the planner.
parseUtteranceIntoPlan(u) ==
    LET selecting == u.kind = "number" /\ ambigousParses # <<>>
        parses == IF selecting THEN <<selectedParse(u.n)>>
                  ELSE IF u.kind = "number" THEN <<>>
                  ELSE u.parses
        said == IF selecting
                  THEN << <<"Ok, you want me to">> \o intelligentStringify(parses[1]) >>
                ELSE <<>>
        listed == [i \in 1..Len(parses) |->
                      <<Count(i), ":">> \o intelligentStringify(parses[i])]
    IN  /\ heard' = u
        /\ UNCHANGED <<worldVars, lit>>
        /\ IF selecting /\ ~(u.n <= Len(ambigousParses) /\ u.n > 0)
             THEN /\ output' = <<SorryNumber(u.n)>>
                  /\ cmd' = NoCommand
                  /\ NoSearch
                  /\ UNCHANGED <<ambigousParses, preVars>>
           ELSE IF parses = <<>>
             THEN /\ output' = <<SorryParse>>
                  /\ cmd' = NoCommand
                  /\ NoSearch
                  /\ UNCHANGED <<ambigousParses, preVars>>
           ELSE IF Len(parses) > 1
             THEN /\ output' = << <<"This utterance is ambiguous, I found",
                                    Count(Len(parses)), "different parses.">> >>
                               \o listed \o <<PleaseChoose>>
                  /\ ambigousParses' = parses
                  /\ cmd' = NoCommand
                  /\ NoSearch
                  /\ UNCHANGED preVars
           ELSE /\ ambigousParses' = <<>>
                /\ cmd' = parses[1]
                /\ interpretAndPlan(firstInterpretation(interpret(parses, live, pre)),
                                    said)

----------------------------------------------------------------------------
(* The dialogue: utterances heard one after the other in a world that      *)
(* stays as it is; the plan of a command is searched for before the next   *)
(* utterance is read.                                                      *)

Ball == Obj(Null, Null, "ball")
Box == Obj(Null, Null, "box")
Table == Obj(Null, Null, "table")
AnyObject == Obj(Null, Null, "anyform")
FloorObj == Obj(Null, Null, "floor")
BallInBox == RelativeObj(Ball, Location("inside", Entity("any", Box)))
BoxOnFloor == RelativeObj(Box, Location("ontop", Entity("the", FloorObj)))

\* The commands said, with the parses the parser finds for them.
Commands ==
    { take(Entity("the", Ball)),
      take(Entity("any", Ball)),
      take(Entity("all", Ball)),
      take(Entity("the", Table)),
      take(Entity("the", BallInBox)),
      move(Entity("the", Ball), Location("inside", Entity("the", Box))),
      move(Entity("the", Box), Location("inside", Entity("any", Box))),
      move(Entity("any", Ball), Location("leftof", Entity("the", Box))),
      move(Entity("all", Ball), Location("leftof", Entity("the", Box))),
      move(Entity("the", Ball), Location("leftof", Entity("all", Box))),
      move(Entity("all", Ball), Location("inside", Entity("any", Box))),
      move(Entity("any", AnyObject), Location("beside", Entity("all", Box))),
      move(Entity("the", Ball), Location("ontop", Entity("the", Table))),
      move(Entity("the", Table), Location("rightof", Entity("the", Ball))),
      put(Location("ontop", Entity("the", FloorObj))),
      put(Location("inside", Entity("the", Box))) }

\* The replies to a question.
Replies ==
    { specification(Entity("the", Obj(Null, "white", "ball"))),
      specification(Entity("the", Obj(Null, "black", "anyform"))),
      specification(Entity("the", Obj("large", Null, "anyform"))),
      specification(Entity("the", Obj(Null, "yellow", "box"))),
      specification(Entity("the", Obj(Null, "blue", "box"))),
      specification(Entity("any", Obj("small", Null, "ball"))),
      specification(Entity("the", Obj(Null, "red", "anyform"))) }

\* A text with two parses: the ball that is inside a box goes on the floor,
\* or the ball goes inside the box that is on the floor.
TwoParses ==
    << move(Entity("the", BallInBox), Location("ontop", Entity("the", FloorObj))),
       move(Entity("the", Ball), Location("inside", Entity("the", BoxOnFloor))) >>

MaxNumber == 3

Utterances ==
    {Text(<<c>>) : c \in Commands \cup Replies}
    \cup {Text(TwoParses), Text(<<>>)}
    \cup {Number(n) : n \in 0..MaxNumber}

DialogueWorlds ==
    { [stacks |-> << <<"e">>, <<"k", "a">>, <<"t">>, <<"b">> >>,
       arm |-> 0, holding |-> Null],
      [stacks |-> << <<"e", "c">>, <<"k", "a">>, <<>>, <<"t">> >>,
       arm |-> 1, holding |-> "b"],
      [stacks |-> << <<"e", "b">> >>, arm |-> 0, holding |-> "a"] }

InitDialogue ==
    \E s \in {w \in DialogueWorlds : PhysicsOK(w)} :
        /\ stacks = s.stacks
        /\ arm = s.arm
        /\ holding = s.holding
        /\ start = s
        /\ trail = <<>>
        /\ lit = Literal("holding", <<Null>>)
        /\ SearchIdle
        /\ DialogueIdle

\* The next utterance is read when the last one has been dealt with.
Hear ==
    /\ pc # "search"
    /\ \E u \in Utterances : parseUtteranceIntoPlan(u)

NextDialogue == Hear \/ AStarExpand \/ AStarTypeError \/ AStarFound

SpecDialogue == InitDialogue /\ [][NextDialogue]_vars

----------------------------------------------------------------------------
(* One command: the first utterance of a session is a move command, drawn   *)
(* from every combination of quantifiers, relations and descriptions.       *)

Quantifiers == {"the", "any", "all"}

MovableDescriptions == {Ball, Box, Table, AnyObject, Obj("large", Null, "ball")}

DestinationDescriptions ==
    {Ball, Box, Table, FloorObj, Obj(Null, "yellow", "box"), Obj("small", Null, "anyform"),
     Obj("large", Null, "box")}

MoveCommands ==
    {move(Entity(mq, o), Location(rel, Entity(lq, d))) :
        mq \in Quantifiers, lq \in Quantifiers,
        rel \in {"ontop", "inside", "leftof", "beside", "above"},
        o \in MovableDescriptions, d \in DestinationDescriptions}

\* The first utterance is heard: one parse, interpreted with nothing pending.
InterpretOnce ==
    /\ heard = NoUtterance
    /\ \E c \in MoveCommands : parseUtteranceIntoPlan(Text(<<c>>))

SpecInterpret == InitDialogue /\ [][InterpretOnce]_vars

----------------------------------------------------------------------------
(* The goal compiler on its own: getDNFFormula is called with lists of      *)
(* labels of the world, a relation and two quantifiers.                     *)

\* The lists of one or two of the labels L, in the order of Ordered.
ListsOf(L, Ordered) ==
    {SelectSeq(Ordered, LAMBDA l : l \in S) :
        S \in {T \in SUBSET L : Cardinality(T) \in 1..2}}

CompiledRelations == {"ontop", "inside", "above", "leftof"}

Compilation(M, R, relation, mq, lq) ==
    [kind |-> "compile", movableLabels |-> M, relatableLabels |-> R,
     relation |-> relation, movableQuantifier |-> mq, locationQuantifier |-> lq]

\* getDNFFormula is called: its error is printed, or its formula goes to the
\* planner.
compile(u) ==
    /\ heard' = u
    /\ UNCHANGED <<worldVars, lit, cmd, ambigousParses>>
    /\ interpretAndPlan([pre |-> pre,
                         res |-> getDNFFormula(u.movableLabels, u.relatableLabels,
                                               u.relation, u.movableQuantifier,
                                               u.locationQuantifier, live)],
                        <<>>)

\* The call for a pickup: one movable label, no relatable labels and no
\* location quantifier.
PickupCompilation(M, mq) ==
    [kind |-> "pickup", movableLabels |-> M, relatableLabels |-> <<>>,
     relation |-> "holding", movableQuantifier |-> mq, locationQuantifier |-> Undefined]

CompileOnce ==
    /\ heard = NoUtterance
    /\ \/ \E M \in ListsOf(LabelsOf(live) \cup {Floor},
                           <<Floor>> \o Flatten(stacks) \o <<holding>>),
             R \in ListsOf(LabelsOf(live) \cup {Floor},
                           <<Floor>> \o Flatten(stacks) \o <<holding>>),
             relation \in CompiledRelations,
             mq \in Quantifiers, lq \in Quantifiers :
               compile(Compilation(M, R, relation, mq, lq))
       \/ \E l \in LabelsOf(live) \cup {Floor}, mq \in Quantifiers :
               compile(PickupCompilation(<<l>>, mq))

SpecCompile == InitDialogue /\ [][CompileOnce]_vars

----------------------------------------------------------------------------
(* The two stages on lists: Interpreter.interpret is called with several    *)
(* parses, Planner.plan with several interpretations.                       *)

StageCommands ==
    { take(Entity("any", Ball)),
      take(Entity("the", Ball)),
      take(Entity("all", Ball)),
      take(Entity("the", Table)),
      move(Entity("all", Ball), Location("inside", Entity("the", Obj(Null, "yellow", "box")))),
      move(Entity("the", Table), Location("leftof", Entity("any", Box))) }

MaxInputs == 3

ListsOver(S) == UNION {[1..n -> S] : n \in 1..MaxInputs}

\* What planInterpretation makes of an interpretation: a plan, or an error of
\* the search.
PlanOutcomes ==
    { Returned(<<>>),
      Returned(<<Token("p"), Moving(<<"white", "ball">>)>>),
      Returned(<<Token("r"), Token("d")>>),
      Thrown(TypeError),
      Thrown(<<"RangeError">>) }

\* Interpreter.interpret is called with the parses.
InterpretAll ==
    /\ heard = NoUtterance
    /\ \E parses \in ListsOver(StageCommands) :
        /\ heard' = [kind |-> "parses", parses |-> parses]
        /\ UNCHANGED <<worldVars, lit, cmd, ambigousParses>>
        /\ interpretAndPlan(firstInterpretation(interpret(parses, live, pre)), <<>>)

\* The end of Planner.plan in Shrdlite: the error is printed, or plans[0].plan
\* is the final plan.
finalPlan(r) ==
    IF r.thrown THEN output' = <<r.msg>> /\ plan' = <<>> /\ pc' = "idle"
    ELSE output' = <<>> /\ plan' = r.value[1] /\ pc' = "done"

\* Planner.plan is called with interpretations that planInterpretation makes
\* the outcomes of.
PlanAll ==
    /\ heard = NoUtterance
    /\ \E outcomes \in ListsOver(PlanOutcomes) :
        /\ heard' = [kind |-> "outcomes", outcomes |-> outcomes]
        /\ finalPlan(PlannerPlan(outcomes))
        /\ UNCHANGED <<worldVars, lit, goal, nodes, heap, queue, cheapest, cameFrom,
                       preVars, ambigousParses, cmd>>

NextStages == InterpretAll \/ PlanAll

SpecStages == InitDialogue /\ [][NextStages]_vars

----------------------------------------------------------------------------
(* The resolver on its own: matchObject is called with a list of candidate  *)
(* labels in some order and a description.                                  *)

MaxCandidates == 4

\* The lists without repetition of at most MaxCandidates of the labels L.
OrderingsOf(L) ==
    {q \in UNION {[1..n -> L] : n \in 1..MaxCandidates} :
        \A i, j \in 1..Len(q) : i # j => q[i] # q[j]}

NounPhrases ==
    { Ball, Box, AnyObject, FloorObj, Obj("large", Null, "anyform"),
      BallInBox, BoxOnFloor,
      RelativeObj(AnyObject, Location("leftof", Entity("all", Ball))),
      RelativeObj(Box, Location("beside", Entity("any", Table))),
      RelativeObj(Ball, Location("inside", Entity("the", BoxOnFloor))) }

\* The labels matchObject returns are the movable labels; its error is
\* printed.
resolved(r) ==
    /\ IF r.thrown THEN output' = <<r.msg>> /\ preMovableLabels' = <<>>
       ELSE output' = <<>> /\ preMovableLabels' = r.value
    /\ UNCHANGED <<worldVars, lit, searchVars, cmd, ambigousParses,
                   preRelatableLabels, preRelation, preMessage,
                   preMovableQuantifier, preRelatableQuantifier>>

ResolveOnce ==
    /\ heard = NoUtterance
    /\ \E labels \in OrderingsOf(LabelsOf(live) \cup {Floor}), target \in NounPhrases :
        /\ heard' = [kind |-> "resolve", labels |-> labels, target |-> target]
        /\ resolved(matchObject(labels, target, live))

SpecResolve == InitDialogue /\ [][ResolveOnce]_vars

----------------------------------------------------------------------------
(* The oracle on its own: isPhysicallyCorrect is called with two labels of  *)
(* the object table (or the floor) and a relation.                          *)

Relations == {"ontop", "inside", "above", "under", "leftof", "rightof", "beside"}

OracleOnce ==
    /\ heard = NoUtterance
    /\ \E label1 \in Labels \cup {Floor}, label2 \in Labels \cup {Floor}, relation \in Relations :
        heard' = [kind |-> "oracle", label1 |-> label1, label2 |-> label2,
                  relation |-> relation,
                  result |-> isPhysicallyCorrect(label1, label2, relation)]
    /\ UNCHANGED <<worldVars, lit, searchVars, preVars, ambigousParses, cmd, output>>

SpecOracle == InitDialogue /\ [][OracleOnce]_vars

----------------------------------------------------------------------------
(* The relative clause on its own: checkRelation is called with a label of  *)
(* the world and a location whose referent is a plain description.          *)

Referents == {Ball, Box, Table, AnyObject, FloorObj, Obj("small", Null, "anyform")}

CheckOnce ==
    /\ heard = NoUtterance
    /\ \E label \in LabelsOf(live) \cup {Floor}, relation \in BinaryRelations, q \in Quantifiers, d \in Referents :
        heard' = [kind |-> "check", label |-> label,
                  location |-> Location(relation, Entity(q, d)),
                  result |-> checkRelation(label, Location(relation, Entity(q, d)), live)]
    /\ UNCHANGED <<worldVars, lit, searchVars, preVars, ambigousParses, cmd, output>>

SpecRelation == InitWorld /\ [][CheckOnce]_vars

----------------------------------------------------------------------------
(* Claims: world successor *)

\* C3: in every world reached from a well-formed start by successor actions
\* the number of columns is that of the start, 0 <= arm < N, every label is
\* in as many places as in the start, and no label is in two places.
Thm_C3_WellFormed ==
    /\ Len(stacks) = Len(start.stacks)
    /\ 0 <= arm /\ arm < Len(stacks)
    /\ \A l \in Labels : Places(live, l) = Places(start, l) /\ Places(live, l) <= 1
    /\ Null \notin LabelsIn(live)

\* A pickup and a drop have both been applied and an object is held again.
Wit_C3_WellFormed ==
    /\ \E i \in 1..Len(trail) : trail[i] = "d"
    /\ holding # Null
    /\ LabelsIn(live) # LabelsIn(start)

----------------------------------------------------------------------------
(* Claims: heuristic *)

\* C5 as claimed: the estimate taken for a literal in the start world is at
\* most the number of successor actions of any sequence that makes it true.
Cex_C5_Admissible ==
    isLitTrue(lit, live) => LessEq(manhattanDistance(lit, start), Num(Len(trail)))

\* C7: a literal that is true in a world has estimate 0 there.
Thm_C7_ZeroWhenTrue ==
    isLitTrue(lit, live) => manhattanDistance(lit, live) = Num(0)

\* A binary literal that was false in the start world has been made true.
Wit_C7_ZeroWhenTrue ==
    /\ lit.relation # "holding"
    /\ ~isLitTrue(lit, start)
    /\ isLitTrue(lit, live)

----------------------------------------------------------------------------
(* Claims: planner and search *)

PlanTokens(pl) ==
    LET acts == SelectSeq(pl, LAMBDA e : e.kind = "action")
    IN  [i \in 1..Len(acts) |-> acts[i].text[1]]

\* The tokens applied in order by the successor rules: ok is false as soon as
\* a token is not among the outgoing edges of the world it is applied to.
RECURSIVE RunTokens(_, _)
RunTokens(s, tokens) ==
    IF tokens = <<>> THEN [ok |-> TRUE, state |-> s]
    ELSE LET succ == Successors(s)
             hit == {i \in 1..Len(succ) : succ[i].action = Head(tokens)}
         IN  IF hit = {} THEN [ok |-> FALSE, state |-> s]
             ELSE RunTokens(succ[CHOOSE i \in hit : TRUE].state, Tail(tokens))

\* Breadth-first search over the successor relation: the length of a shortest
\* action sequence from the frontier to a world satisfying the formula, -1
\* when there is none.
RECURSIVE ShortestFrom(_, _, _, _)
ShortestFrom(frontier, seen, interpretation, d) ==
    IF \E s \in frontier : goalTest(interpretation, s) THEN d
    ELSE LET next == UNION {{Successors(s)[i].state : i \in 1..Len(Successors(s))}
                             : s \in frontier} \ seen
         IN  IF next = {} THEN -1
             ELSE ShortestFrom(next, seen \cup next, interpretation, d + 1)

ShortestLength(s, interpretation) == ShortestFrom({s}, {s}, interpretation, 0)

\* C1 as claimed: the tokens of a returned plan are each enabled when applied
\* in order from the start world, and the world reached satisfies the goal.
Cex_C1_PlanValid ==
    pc = "done" =>
        LET r == RunTokens(start, PlanTokens(plan))
        IN  r.ok /\ goalTest(goal, r.state)

\* C2 as claimed: a returned plan has as many action tokens as a shortest
\* action sequence from the start world to a goal world.
Cex_C2_Optimal ==
    pc = "done" => Len(PlanTokens(plan)) = ShortestLength(start, goal)

\* C6 as claimed: when the goal holds in the start world the returned plan is
\* the single line "That is already true!".
Cex_C6_Idempotent ==
    (pc = "done" /\ goalTest(goal, start)) => plan = <<AlreadyTrue>>

\* The world a token leads to, by value.
ValueAfter(s, token) ==
    LET col == s.arm + 1
    IN  CASE token = "l" -> [s EXCEPT !.arm = s.arm - 1]
          [] token = "r" -> [s EXCEPT !.arm = s.arm + 1]
          [] token = "p" -> [s EXCEPT !.holding = Last(s.stacks[col]),
                                      !.stacks[col] = Front(s.stacks[col])]
          [] token = "d" -> [s EXCEPT !.holding = Null,
                                      !.stacks[col] = Append(s.stacks[col], s.holding)]

\* C8: while a plan is searched for, the live world and the world of the start
\* node stay what they were when planning began, and every other node's world
\* stays the world its action makes of its parent's world: no node's world
\* changes when its successors, or a sibling, are created or changed.
Thm_C8_Frame ==
    pc \in {"search", "done", "TypeError"} =>
        /\ live = start
        /\ StateOf(nodes[1], heap) = start
        /\ \A j \in 1..Len(cameFrom) :
              StateOf(nodes[cameFrom[j].to], heap)
                = ValueAfter(StateOf(nodes[cameFrom[j].from], heap),
                             nodes[cameFrom[j].to].action)

\* A plan was returned after nodes were created by a pickup and by a drop,
\* some of them successors of successors.
Wit_C8_Frame ==
    /\ pc = "done"
    /\ \E i \in 1..Len(nodes) : nodes[i].action = "p"
    /\ \E i \in 1..Len(nodes) : nodes[i].action = "d"
    /\ \E j \in 1..Len(cameFrom) : cameFrom[j].from # 1

----------------------------------------------------------------------------
(* Claims: clarification dialogue *)

Fresh(c) == c # NoCommand /\ c.command # "specification"
HasEntity(c) == "entity" \in DOMAIN c
HasLocation(c) == "location" \in DOMAIN c

\* The labels of the live world that the two sides of a fresh command
\* resolve to: the description matched against the floor, the stacks and the
\* held object; the held object for "it"; nothing for the destination of a
\* take command.
ResolvedMovable(c) ==
    IF HasEntity(c) THEN matchObject(WorldLabels(live), c.entity.object, live)
    ELSE Returned(<<holding>>)

ResolvedRelatable(c) ==
    IF HasLocation(c)
      THEN matchObject(WorldLabels(live), c.location.entity.object, live)
    ELSE Returned(<<>>)

\* Apart from an ambiguity the command raises no error: both sides resolve
\* to something and, for a move command, the validation accepts them.
OtherwiseValidOn(c, m, r) ==
    /\ ~m.thrown /\ ~r.thrown
    /\ Len(m.value) > 0 /\ Null \notin {m.value[i] : i \in 1..Len(m.value)}
    /\ HasLocation(c) => Len(r.value) > 0
    /\ (HasEntity(c) /\ HasLocation(c))
         => ~validateParse(c, m.value, r.value, live).thrown

TheAmbiguousOn(c, m, r) ==
    LET movable == HasEntity(c) /\ c.entity.quantifier = "the" /\ Len(m.value) > 1
        destination == HasLocation(c) /\ c.location.entity.quantifier = "the"
                       /\ Len(r.value) > 1
    IN  movable \/ (~movable /\ destination)

QuestionKeptOn(c, m, r) ==
    /\ output # <<>> /\ IsQuestion(Last(output))
    /\ goal = <<>> /\ plan = <<>> /\ pc = "idle"
    /\ preMovableLabels = m.value
    /\ preRelatableLabels = r.value
    /\ preRelation = (IF HasLocation(c) THEN c.location.relation ELSE "holding")

\* C9: when the command interpreted last is otherwise valid and its movable
\* description is "the"-quantified and resolves to more than one label (or the
\* movable side is not ambiguous and its destination description is
\* "the"-quantified and resolves to more than one label), then what was
\* printed last is a clarification question, there is no goal formula and no
\* plan, and the pending context holds the resolved movable labels, the
\* resolved relatable labels and the relation of the command.
Thm_C9_QuestionSuspends ==
    Fresh(cmd) =>
        ((OtherwiseValidOn(cmd, ResolvedMovable(cmd), ResolvedRelatable(cmd))
          /\ TheAmbiguousOn(cmd, ResolvedMovable(cmd), ResolvedRelatable(cmd)))
         => QuestionKeptOn(cmd, ResolvedMovable(cmd), ResolvedRelatable(cmd)))

\* A question about the destination of a command whose movable side has
\* several labels under "all" is pending.
Wit_C9_QuestionSuspends ==
    /\ Fresh(cmd) /\ HasEntity(cmd) /\ HasLocation(cmd)
    /\ cmd.entity.quantifier = "all"
    /\ OtherwiseValidOn(cmd, ResolvedMovable(cmd), ResolvedRelatable(cmd))
    /\ TheAmbiguousOn(cmd, ResolvedMovable(cmd), ResolvedRelatable(cmd))
    /\ Len(preMovableLabels) > 1 /\ Len(preRelatableLabels) > 1
    /\ preRelation = cmd.location.relation
    /\ IsQuestion(Last(output))

\* A referent question is pending: it was printed last and the relation is kept.
QuestionPending ==
    /\ ~IsNull(preRelation)
    /\ output # <<>> /\ IsQuestion(Last(output))

\* The side the pending question is about, and its candidates.
AskedSide ==
    IF Len(preMovableLabels) > 1 /\ preMovableQuantifier = "the"
      THEN "movable" ELSE "relatable"

Candidates == IF AskedSide = "movable" THEN preMovableLabels ELSE preRelatableLabels

\* The reply heard in this step matches exactly one of the candidates.
ReplyMatchesOne(m) == ~m.thrown /\ Len(m.value) = 1

\* After the reply no question about the asked side is pending, and a goal
\* handed to the planner has the label p on the asked side of every literal.
ResolvedWith(side, p) ==
    /\ ~(QuestionPending' /\ AskedSide' = side)
    /\ pc' = "search" =>
         \A i \in 1..Len(goal') : \A k \in 1..Len(goal'[i]) :
             goal'[i][k].args[IF side = "movable" THEN 1 ELSE Len(goal'[i][k].args)] = p

\* C10: while a referent question about one side with candidates P is
\* pending (the original command named or held a movable object), a reply
\* whose description matches exactly one label p of P ends the question about
\* that side, whatever the quantifiers of the original command were: no
\* question about that side is asked again, and the goal that is compiled has
\* p on that side of every literal.
Cex_C10_ReplyResolves ==
    [][(/\ QuestionPending
        /\ Null \notin {preMovableLabels[i] : i \in 1..Len(preMovableLabels)}
        /\ cmd'.command = "specification"
        /\ ReplyMatchesOne(matchObject(Candidates, cmd'.entity.object, live)))
       => ResolvedWith(AskedSide,
                       matchObject(Candidates, cmd'.entity.object, live).value[1])]_vars

\* The reply heard in this step matches none of the candidates.
ReplyMatchesNone(m) == ~m.thrown /\ m.value = <<>>

\* The asked side is one whose candidates the interpreter matches a reply
\* against: the movable side, or the destination of at most one movable label.
ReplyConsulted == AskedSide = "movable" \/ Len(preMovableLabels) <= 1

\* The original command named or held a movable object.
MovableKnown == Null \notin {preMovableLabels[i] : i \in 1..Len(preMovableLabels)}

\* C11: while a referent question is pending (the original command named or
\* held a movable object), a reply whose description
\* matches none of the candidates of the asked side is answered by "That was
\* not one of the options I asked for. " followed by the saved prompt, no goal
\* is produced, and the preselected movable labels, the preselected relatable
\* labels, the relation, both stored quantifiers and the saved prompt all keep
\* the values they had before the reply.
Cex_C11_BadReplyHarmless ==
    [][(/\ QuestionPending
        /\ ReplyConsulted /\ MovableKnown
        /\ cmd'.command = "specification"
        /\ ReplyMatchesNone(matchObject(Candidates, cmd'.entity.object, live)))
       => (/\ output' = <<NotAnOption \o preMessage>>
           /\ pc' = "idle" /\ goal' = <<>> /\ plan' = <<>>
           /\ UNCHANGED preVars)]_vars

\* The utterance is a text that is not a clarification reply: the parser
\* fails on it, finds several parses for it, or finds a command.
NotAReply(u) ==
    /\ u.kind = "text"
    /\ (Len(u.parses) # 1 \/ u.parses[1].command # "specification")

\* The utterance heard in this step asked a referent question of its own.
AsksAnew == Fresh(cmd') /\ output' # <<>> /\ IsQuestion(Last(output'))

\* C12: when a text that is not a clarification reply is processed
\* while a referent context is pending (the relation is kept), the context is
\* discarded: afterwards no relation is kept, unless the text is a command
\* that asked a referent question of its own.
Cex_C12_NextUtteranceOnly ==
    [][(/\ pc # "search"
        /\ ~IsNull(preRelation)
        /\ NotAReply(heard'))
       => (IsNull(preRelation') \/ AsksAnew)]_vars

----------------------------------------------------------------------------
(* Claims: parse-level ambiguity *)

\* The utterance heard in this step is a text with several parses.
HearsSeveralParses == pc # "search" /\ heard'.kind = "text" /\ Len(heard'.parses) > 1

\* The utterance heard in this step is a number that selects a pending parse.
HearsSelection ==
    /\ pc # "search" /\ heard'.kind = "number"
    /\ heard'.n \in 1..Len(ambigousParses)

\* What the interpreter makes of the command c in the state before the step.
Interpreted(c) == interpretCommand(c, live, pre).res

\* The command c and no other is interpreted and planned in this step: its
\* error is printed, or its formula is what the planner searches for.
InterpretedAndPlanned(c, r) ==
    /\ cmd' = c
    /\ r.thrown => (pc' = "idle" /\ goal' = <<>> /\ Last(output') = r.msg)
    /\ ~r.thrown => (pc' = "search" /\ goal' = r.value)

\* C13: a text with k > 1 parses is neither interpreted nor planned and its
\* parses become the pending parses in the order found; a number n in 1..k
\* heard while k parses are pending makes the n-th pending parse, and no
\* other, the command that is interpreted and planned, and clears the pending
\* parses.
Thm_C13_ParseProtocol ==
    [][/\ HearsSeveralParses
          => (/\ ambigousParses' = heard'.parses
              /\ cmd' = NoCommand
              /\ pc' = "idle" /\ goal' = <<>> /\ plan' = <<>>)
       /\ HearsSelection
          => (/\ InterpretedAndPlanned(ambigousParses[heard'.n],
                                       Interpreted(ambigousParses[heard'.n]))
              /\ ambigousParses' = <<>>)]_vars

\* The second of two pending parses has been selected and interpreted.
Wit_C13_ParseProtocol ==
    /\ heard = Number(2)
    /\ cmd = TwoParses[2]
    /\ ambigousParses = <<>>
    /\ output # <<>> /\ output[1][1] = "Ok, you want me to"

\* C14: while k parses are pending, an utterance that selects none of them
\* (a number outside 1..k, a text the parser fails on, a command or a reply)
\* discards the pending parses: afterwards no parse is pending.
Cex_C14_OtherUtteranceDiscards ==
    [][(/\ pc # "search"
        /\ ambigousParses # <<>>
        /\ heard'.kind # "none"
        /\ ~HearsSelection
        /\ ~HearsSeveralParses)
       => ambigousParses' = <<>>]_vars

----------------------------------------------------------------------------
(* Claims: what is pending after a plan *)

\* A plan has been returned for the utterance heard last.
PlanReturned == pc = "done"

----------------------------------------------------------------------------
(* Claims: validation of a move command *)

Stacked(c) == c.location.relation \in {"ontop", "inside"}

\* The destination labels of the command are not the floor alone.
NotTheFloor(r) == r.thrown \/ r.value # <<Floor>>

FewerDestinations(m, r) == ~m.thrown /\ ~r.thrown /\ Len(r.value) < Len(m.value)

\* The command is one that the rule about "all" movables on or inside a
\* destination rejects.
AllStackedRejectedOn(c, m, r) ==
    /\ Fresh(c) /\ HasEntity(c) /\ HasLocation(c)
    /\ c.entity.quantifier = "all"
    /\ Stacked(c)
    /\ NotTheFloor(r)
    /\ \/ c.location.entity.quantifier \in {"all", "the"}
       \/ FewerDestinations(m, r)

\* The interpretation of the command ended in an error: it was printed and
\* there is no goal.
EndedInError == pc = "idle" /\ goal = <<>> /\ plan = <<>> /\ output # <<>>

\* The description without its relative clause.
Described(o) == IF IsRelative(o) THEN o.object ELSE o

SharedAttribute(o, d) ==
    \/ Field(o, "form") = Field(d, "form") /\ Field(o, "form") # "anyform"
    \/ Field(o, "size") = Field(d, "size") /\ Field(o, "size") # Null
    \/ Field(o, "color") = Field(d, "color") /\ Field(o, "color") # Null

\* No earlier pre-filter rejects the command: the destination of "inside" is
\* described as a box, and the two descriptions share no stated form, size or
\* color.
NoEarlierFilter(c) ==
    /\ c.location.relation = "inside"
         => Field(Described(c.location.entity.object), "form") = "box"
    /\ ~SharedAttribute(Described(c.entity.object),
                        Described(c.location.entity.object))

InsideThe(c) ==
    c.location.relation = "inside" /\ c.location.entity.quantifier = "the"

OneObjectPerBox == <<"A box can only fit one object.">>

----------------------------------------------------------------------------
(* Claims: goal compiler *)

\* No pair of a movable and a relatable label of the compilation is
\* permitted by the physics oracle.
NoPairPermitted(u) ==
    \A i \in 1..Len(u.movableLabels) : \A j \in 1..Len(u.relatableLabels) :
        ~isPhysicallyCorrect(u.movableLabels[i], u.relatableLabels[j], u.relation)

CannotDoThat == <<"I cannot do that.">>

\* C17: when no pair of the movable and the relatable labels is permitted by
\* the physics oracle then, whatever the two quantifiers, the goal compiler
\* raises "I cannot do that.": no formula goes to the planner and no other
\* error is raised.
Cex_C17_CannotDoThat ==
    (heard.kind = "compile" /\ NoPairPermitted(heard))
        => (pc = "idle" /\ goal = <<>> /\ output = <<CannotDoThat>>)

----------------------------------------------------------------------------
(* Claims: first error of a stage *)

\* The module variables of the interpreter when nothing has been said.
IdlePre ==
    [MovableLabels |-> <<>>, RelatableLabels |-> <<>>, Relation |-> Undefined,
     Message |-> <<Undefined>>, MovableQuantifier |-> Undefined,
     RelatableQuantifier |-> Undefined]

\* The module variables before the i-th parse of the list is interpreted, and
\* what interpretCommand makes of that parse.
RECURSIVE PreBefore(_, _)
PreBefore(parses, i) ==
    IF i = 1 THEN IdlePre
    ELSE interpretCommand(parses[i - 1], live, PreBefore(parses, i - 1)).pre

ResultOf(parses, i) == interpretCommand(parses[i], live, PreBefore(parses, i)).res

TriedParses(parses) ==
    [i \in 1..Len(parses) |-> [parse |-> parses[i], r |-> ResultOf(parses, i)]]

Succeeded(tried) == SelectSeq(tried, LAMBDA x : ~x.r.thrown)

\* Interpreter.interpret returns the interpretations of the parses that
\* succeed, in the order of the parses, or throws the error of the first
\* parse; Shrdlite prints that error or plans the first interpretation.
InterpreterFirstError(parses, tried, good, out) ==
    IF good # <<>>
      THEN /\ out = Returned([k \in 1..Len(good) |->
                                 [parse |-> good[k].parse,
                                  interpretation |-> good[k].r.value]])
           /\ pc = "search" /\ goal = good[1].r.value /\ output = <<>>
    ELSE /\ out = Thrown(tried[1].r.msg)
         /\ pc = "idle" /\ goal = <<>> /\ output = <<tried[1].r.msg>>

\* Planner.plan returns the plans of the interpretations that succeed, in
\* their order, or throws the error of the first interpretation; Shrdlite
\* prints that error or returns the first plan.
PlannerFirstError(outcomes, good, out) ==
    IF good # <<>>
      THEN /\ out = Returned([k \in 1..Len(good) |->
                                 IF good[k].value = <<>> THEN <<AlreadyTrue>>
                                 ELSE good[k].value])
           /\ pc = "done" /\ plan = out.value[1] /\ output = <<>>
    ELSE /\ out = Thrown(outcomes[1].msg)
         /\ pc = "idle" /\ plan = <<>> /\ output = <<outcomes[1].msg>>

\* C18: a stage given a list of inputs returns the results of the inputs
\* that succeed, in the order of the inputs, when at least one succeeds, and
\* otherwise raises one error, that of the first input: the interpreter over
\* parses and the planner over interpretations.
Thm_C18_FirstError ==
    /\ heard.kind = "parses"
         => InterpreterFirstError(heard.parses, TriedParses(heard.parses),
                                  Succeeded(TriedParses(heard.parses)),
                                  interpret(heard.parses, live, IdlePre).res)
    /\ heard.kind = "outcomes"
         => PlannerFirstError(heard.outcomes,
                              SelectSeq(heard.outcomes, LAMBDA o : ~o.thrown),
                              PlannerPlan(heard.outcomes))

\* Three parses have failed with errors that are not all the same, and the
\* error printed is that of the first.
Wit_C18_FirstError ==
    /\ heard.kind = "parses" /\ Len(heard.parses) = 3
    /\ Succeeded(TriedParses(heard.parses)) = <<>>
    /\ ResultOf(heard.parses, 1).msg # ResultOf(heard.parses, 3).msg
    /\ output = <<ResultOf(heard.parses, 1).msg>>

----------------------------------------------------------------------------
(* Claims: resolver *)

\* The candidates in one fixed order: the floor, the stacks from the left and
\* from the bottom, the held object.
Canonical(labels) ==
    SelectSeq(<<Floor>> \o Flatten(stacks) \o <<holding>>,
              LAMBDA l : \E i \in 1..Len(labels) : labels[i] = l)

AsSet(q) == {q[i] : i \in 1..Len(q)}

\* What the state keeps of the resolution is, as a set of labels or as an
\* error, what the resolver result r is.
ResolvedAs(r) ==
    IF r.thrown THEN output = <<r.msg>>
    ELSE output = <<>> /\ AsSet(preMovableLabels) = AsSet(r.value)

\* C19: for every description, leaf or with relative clauses, and every
\* world, the set of labels the resolver returns (or its error) for a list of
\* candidates in any order is the one it returns for the same candidates in
\* the fixed order.
Thm_C19_ResolverCommutes ==
    heard.kind = "resolve"
        => ResolvedAs(matchObject(Canonical(heard.labels), heard.target, live))

\* A description with a relative clause was resolved to two labels from four
\* candidates that were not in the fixed order.
Wit_C19_ResolverCommutes ==
    /\ heard.kind = "resolve"
    /\ IsRelative(heard.target)
    /\ Len(heard.labels) = 4 /\ heard.labels # Canonical(heard.labels)
    /\ Len(preMovableLabels) = 2

----------------------------------------------------------------------------
(* Claims: successor enumeration *)

\* The top of the arm's column, or the floor under an empty column.
TopUnderArm(s) ==
    IF s.stacks[s.arm + 1] = <<>> THEN Floor ELSE Last(s.stacks[s.arm + 1])

Edge(action, to) == [action |-> action, state |-> to, cost |-> 1]

\* The edges the enumeration is to give for the world s.
ExpectedEdges(s) ==
    (IF s.arm > 0 THEN {Edge("l", [s EXCEPT !.arm = s.arm - 1])} ELSE {})
    \cup (IF s.arm < Len(s.stacks) - 1
            THEN {Edge("r", [s EXCEPT !.arm = s.arm + 1])} ELSE {})
    \cup (IF s.holding = Null /\ s.stacks[s.arm + 1] # <<>>
            THEN {Edge("p", [s EXCEPT !.holding = Last(s.stacks[s.arm + 1]),
                                      !.stacks[s.arm + 1] = Front(s.stacks[s.arm + 1])])}
          ELSE {})
    \cup (IF s.holding # Null
             /\ (\/ isPhysicallyCorrect(s.holding, TopUnderArm(s), "ontop")
                 \/ isPhysicallyCorrect(s.holding, TopUnderArm(s), "inside"))
            THEN {Edge("d", [s EXCEPT !.holding = Null,
                                      !.stacks[s.arm + 1] = Append(s.stacks[s.arm + 1],
                                                                   s.holding)])}
          ELSE {})

\* C20: the outgoing edges of every world are exactly: l with the arm one
\* column to the left iff arm > 0; r with the arm one column to the right iff
\* arm < N - 1; p with the top of the arm's column held iff nothing is held
\* and the column is not empty; d with the held label on top of the arm's
\* column iff something is held and the oracle permits it on or inside the
\* top of the column (the floor for an empty column); each of cost 1, once,
\* and with nothing else changed.
Thm_C20_Successors ==
    /\ AsSet(Successors(live)) = ExpectedEdges(live)
    /\ Len(Successors(live)) = Cardinality(ExpectedEdges(live))

\* After some actions the arm holds a label that may not be dropped where it
\* is, between two columns: the edges are l and r alone.
Wit_C20_Successors ==
    /\ trail # <<>>
    /\ holding # Null
    /\ arm > 0 /\ arm < Len(stacks) - 1
    /\ Len(Successors(live)) = 2

----------------------------------------------------------------------------
(* Claims: the physics oracle *)

Asked == heard.kind = "oracle"

FormOf(label) == IF label = Floor THEN "floor" ELSE objects[label].form
SizeOf(label) == IF label = Floor THEN Null ELSE objects[label].size

\* The rule table for ontop.
OntopRule(upper, lower) ==
    /\ upper # lower
    /\ FormOf(lower) \notin {"box", "ball"}
    /\ ~(SizeOf(lower) = "small" /\ SizeOf(upper) = "large")
    /\ (FormOf(upper) = "ball" => FormOf(lower) \in {"floor", "box"})
    /\ ~(FormOf(upper) = "box" /\ SizeOf(upper) = "small"
           /\ SizeOf(lower) = "small" /\ FormOf(lower) \in {"brick", "pyramid"})
    /\ ~(FormOf(upper) = "box" /\ SizeOf(upper) = "large"
           /\ SizeOf(lower) = "large" /\ FormOf(lower) = "pyramid")

\* The rule table for inside.
InsideRule(upper, lower) ==
    /\ upper # lower
    /\ FormOf(lower) = "box"
    /\ ~(SizeOf(lower) = "small" /\ SizeOf(upper) = "large")
    /\ ~(FormOf(upper) \in {"box", "pyramid", "plank"} /\ SizeOf(upper) = SizeOf(lower))

\* C21: for every upper label and every lower label or the floor, the oracle
\* permits ontop exactly when the ontop rule table does and inside exactly
\* when the inside rule table does.
Thm_C21_StackingTable ==
    Asked /\ heard.label1 # Floor =>
        /\ heard.relation = "ontop" => heard.result = OntopRule(heard.label1, heard.label2)
        /\ heard.relation = "inside" => heard.result = InsideRule(heard.label1, heard.label2)

\* The oracle was asked about a large box on a large pyramid and refused.
Wit_C21_StackingTable ==
    /\ Asked
    /\ heard.relation = "ontop"
    /\ FormOf(heard.label1) = "box" /\ SizeOf(heard.label1) = "large"
    /\ FormOf(heard.label2) = "pyramid" /\ SizeOf(heard.label2) = "large"
    /\ ~heard.result

\* C22: the oracle permits no relation of a label to itself; for two
\* different labels it always permits leftof, rightof and beside, permits
\* above exactly when the lower is not a ball and not small under a large
\* upper, and permits under exactly when the first is not a ball.
Thm_C22_PositionalRules ==
    Asked =>
        /\ heard.label1 = heard.label2 => ~heard.result
        /\ heard.label1 # heard.label2 =>
            /\ heard.relation \in {"leftof", "rightof", "beside"} => heard.result
            /\ heard.relation = "above" =>
                 heard.result = (/\ FormOf(heard.label2) # "ball"
                                 /\ ~(SizeOf(heard.label1) = "large"
                                        /\ SizeOf(heard.label2) = "small"))
            /\ heard.relation = "under" =>
                 heard.result = (FormOf(heard.label1) # "ball")

\* The oracle was asked whether a table may be above a ball of its size and
\* refused.
Wit_C22_PositionalRules ==
    /\ Asked
    /\ heard.relation = "above"
    /\ FormOf(heard.label1) = "table" /\ FormOf(heard.label2) = "ball"
    /\ SizeOf(heard.label1) = SizeOf(heard.label2)
    /\ ~heard.result

----------------------------------------------------------------------------
(* Claims: the shape of compiled goals *)

\* getDNFFormula was called on its own and returned the formula in goal.
Compiled == heard.kind = "compile" /\ pc = "search"

Stacking(relation) == relation \in {"ontop", "inside"}

\* The literals of the conjunction conj whose first argument is m.
LiteralsFor(conj, m) == {i \in 1..Len(conj) : conj[i].args[1] = m}

\* The conjunction conj gives each label of M one permitted destination of R
\* and, when stacking, no destination twice.
OnePerMovable(conj, u) ==
    /\ \A i \in 1..Len(u.movableLabels) :
         u.movableLabels[i] # Floor =>
             Cardinality(LiteralsFor(conj, u.movableLabels[i])) = 1
    /\ \A i \in 1..Len(conj) :
         /\ conj[i].relation = u.relation
         /\ Len(conj[i].args) = 2
         /\ \E k \in 1..Len(u.movableLabels) : conj[i].args[1] = u.movableLabels[k]
         /\ \E j \in 1..Len(u.relatableLabels) : conj[i].args[2] = u.relatableLabels[j]
         /\ isPhysicallyCorrect(conj[i].args[1], conj[i].args[2], u.relation)
    /\ Stacking(u.relation) =>
         \A i, j \in 1..Len(conj) : i # j => conj[i].args[2] # conj[j].args[2]

AllAny(u) == u.movableQuantifier = "all" /\ u.locationQuantifier = "any"

\* No label is on both sides, as validateParse leaves the two lists for
\* these quantifiers.
NoSelfPair(u) ==
    \A i \in 1..Len(u.movableLabels) : \A j \in 1..Len(u.relatableLabels) :
        u.movableLabels[i] # u.relatableLabels[j]

\* C23: for the movable quantifier "all" and the destination quantifier
\* "any", every conjunction of the returned formula holds exactly one literal
\* for each movable label, none is left out, each to a permitted relatable
\* label, and under ontop or inside no two literals of a conjunction have
\* the same second argument.
Cex_C23_AllAnyConstruction ==
    (Compiled /\ AllAny(heard) /\ NoSelfPair(heard)) =>
        \A c \in 1..Len(goal) : OnePerMovable(goal[c], heard)

\* Neither quantifier of the compilation is "all".
Flat(u) ==
    u.movableQuantifier \in {"any", "the"} /\ u.locationQuantifier \in {"any", "the"}

\* One conjunction of one literal for every permitted pair of a movable label
\* other than the floor and a relatable label.
PermittedSingletons(u) ==
    { <<Literal(u.relation, <<u.movableLabels[i], u.relatableLabels[j]>>)>> :
        <<i, j>> \in { p \in (1..Len(u.movableLabels)) \X (1..Len(u.relatableLabels)) :
            /\ u.movableLabels[p[1]] # Floor
            /\ isPhysicallyCorrect(u.movableLabels[p[1]], u.relatableLabels[p[2]],
                                   u.relation) } }

\* C24: when neither quantifier is "all" and the relation is binary, the
\* returned formula is, as a set, the singleton conjunctions relation(m, r) of
\* all permitted pairs of a movable label other than the floor and a
\* relatable label, and a formula is returned whenever there is such a pair.
Thm_C24_FlatDisjunction ==
    (heard.kind = "compile" /\ Flat(heard)) =>
        IF Compiled THEN AsSet(goal) = PermittedSingletons(heard)
        ELSE PermittedSingletons(heard) = {}

\* A flat disjunction was compiled from lists with the floor among the
\* movables and a pair that is not permitted: the formula has the one
\* permitted pair.
Wit_C24_FlatDisjunction ==
    /\ Compiled /\ Flat(heard)
    /\ \E i \in 1..Len(heard.movableLabels) : heard.movableLabels[i] = Floor
    /\ \E i \in 1..Len(heard.movableLabels), j \in 1..Len(heard.relatableLabels) :
         /\ heard.movableLabels[i] # Floor
         /\ heard.movableLabels[i] # heard.relatableLabels[j]
         /\ ~isPhysicallyCorrect(heard.movableLabels[i], heard.relatableLabels[j],
                                 heard.relation)
    /\ Len(goal) = 1

\* getDNFFormula was called on its own, for a move or for a pickup, and
\* returned the formula in goal.
Returned_DNF == heard.kind \in {"compile", "pickup"} /\ pc = "search"

\* The literal is well formed: positive, about an object of the world, with
\* one argument for holding and otherwise two different arguments that the
\* oracle permits.
WellFormedLiteral(l) ==
    /\ l.polarity = TRUE
    /\ l.args[1] \in LabelsOf(live)
    /\ IF l.relation = "holding" THEN Len(l.args) = 1
       ELSE /\ Len(l.args) = 2
            /\ l.args[1] # l.args[2]
            /\ isPhysicallyCorrect(l.args[1], l.args[2], l.relation)

\* C25: in every formula the goal compiler returns, whatever the two
\* quantifiers, every literal is positive, has a real object label (never the
\* floor) as its first argument, has one argument for holding and otherwise
\* two different arguments, and is permitted by the physics oracle.
Cex_C25_LiteralsWellFormed ==
    Returned_DNF =>
        \A c \in 1..Len(goal) : \A k \in 1..Len(goal[c]) : WellFormedLiteral(goal[c][k])

----------------------------------------------------------------------------
(* Claims: the pre-filters of a move command *)

NotPhysicallyPossible == <<"This is not physically possible.">>

\* The move command was rejected by the shared-attribute pre-filter.
RejectedAsShared ==
    /\ heard.kind = "text"
    /\ cmd.command = "move"
    /\ output = <<NotPhysicallyPossible>>

\* Some label is both a resolved movable and a resolved relatable label.
RelatesToItself(c) ==
    \E i \in 1..Len(ResolvedMovable(c).value), j \in 1..Len(ResolvedRelatable(c).value) :
        ResolvedMovable(c).value[i] = ResolvedRelatable(c).value[j]

\* C26: whenever a move command is rejected because its two descriptions
\* share a stated form, size or color, some label belongs to both the
\* resolved movable set and the resolved relatable set.
Cex_C26_SharedMeansSelf ==
    RejectedAsShared => RelatesToItself(cmd)

\* A move command with the quantifiers all/any or any/all was heard.
AllWithAny ==
    /\ heard.kind = "text"
    /\ cmd.command = "move"
    /\ <<cmd.entity.quantifier, cmd.location.entity.quantifier>>
         \in {<<"all", "any">>, <<"any", "all">>}

\* The validation returned: interpretCommand stored the two lists it gave.
Validated == preMovableLabels # <<>>

\* C27: for the quantifiers all/any and any/all the validation raises an
\* error or returns lists in which no label of the "any" side is also on the
\* "all" side, the "all" side being the resolved list unchanged.
Cex_C27_SelfPairsFiltered ==
    (AllWithAny /\ Validated) =>
        /\ AsSet(preMovableLabels) \cap AsSet(preRelatableLabels) = {}
        /\ cmd.entity.quantifier = "all"
             => preMovableLabels = ResolvedMovable(cmd).value
        /\ cmd.location.entity.quantifier = "all"
             => preRelatableLabels = ResolvedRelatable(cmd).value

----------------------------------------------------------------------------
(* Claims: resuming a command with the reply *)

\* This step hears a reply to the pending question about the movable side
\* and compiles the goal.
MovableReplyCompiled ==
    /\ pc # "search"
    /\ ~IsNull(preRelation)
    /\ Len(preMovableLabels) > 1 /\ preMovableQuantifier = "the"
    /\ heard'.kind = "text"
    /\ cmd'.command = "specification"
    /\ pc' = "search"

\* Every conjunction of the formula has, for every one of the labels, a
\* literal of the relation with that label as its second argument.
RequiresEach(formula, relation, labels) ==
    \A c \in 1..Len(formula) : \A j \in 1..Len(labels) :
        \E k \in 1..Len(formula[c]) :
            /\ formula[c][k].relation = relation
            /\ Len(formula[c][k].args) = 2
            /\ formula[c][k].args[2] = labels[j]

\* C28: when the reply to a question about the movable side is consumed, the
\* goal is compiled with the stored relation and with the quantifier the
\* original command gave the destination: a destination quantifier "all"
\* still gives one requirement for every destination label, whatever
\* quantifier the reply uses.
Cex_C28_ResumptionKeepsMeaning ==
    [][(MovableReplyCompiled /\ preRelatableQuantifier = "all")
          => RequiresEach(goal', preRelation, preRelatableLabels)]_vars

\* A question about the movable labels is pending.
MovableAsked ==
    /\ pc # "search"
    /\ ~IsNull(preRelation)
    /\ Len(preMovableLabels) > 1 /\ preMovableQuantifier = "the"

\* This step hears a reply with the quantifier "any" whose description
\* matches some of the pending movable labels.
AnyReplyToMovable ==
    /\ MovableAsked
    /\ heard'.kind = "text"
    /\ cmd'.command = "specification"
    /\ cmd'.entity.quantifier = "any"
    /\ ~matchObject(preMovableLabels, cmd'.entity.object, live).thrown
    /\ matchObject(preMovableLabels, cmd'.entity.object, live).value # <<>>

\* The formula is about the labels S on the movable side, one label in each
\* conjunction.
DisjunctionOver(formula, S) ==
    /\ formula # <<>>
    /\ \A c \in 1..Len(formula) :
         /\ formula[c] # <<>>
         /\ \A k \in 1..Len(formula[c]) :
              /\ formula[c][k].args[1] \in S
              /\ formula[c][k].args[1] = formula[c][1].args[1]

\* C29: when a question about the candidates P is pending and the reply is
\* an "any" description matching some of P, then for a take and for a move
\* command alike nothing more is asked and the goal compiled is a disjunction
\* over the matching labels on that side.
Cex_C29_AnyReplyEnds ==
    [][AnyReplyToMovable =>
          /\ pc' = "search"
          /\ output' = <<>>
          /\ DisjunctionOver(goal', AsSet(matchObject(preMovableLabels,
                                                      cmd'.entity.object, live).value))]_vars

----------------------------------------------------------------------------
(* Claims: the frontier of the search *)

\* A queue element was popped: cheapest is not the null of an empty queue.
Popped == cheapest.element # 0

\* C30: the element popped last has the smallest cost from the start plus
\* heuristic of all the elements that were in the frontier with it.
Cex_C30_LeastCostFirst ==
    Popped => \A i \in 1..Len(queue) : Estimate(cheapest) <= Estimate(queue[i])

\* The nodes whose outgoing edges the search has enumerated: the parents
\* recorded in cameFrom.
Expanded == {cameFrom[j].from : j \in 1..Len(cameFrom)}

\* C31: during one search no world state (stacks, arm and holding) has its
\* successors enumerated more than once.
Cex_C31_NoReexpansion ==
    \A m, n \in Expanded :
        m # n => StateOf(nodes[m], heap) # StateOf(nodes[n], heap)

CannotFigureOut == <<"I cannot figure this out in the time I have.">>

\* The search has left its loop.
Stopped == pc # "search"

\* C32: the search stops with a path or, when the frontier is exhausted
\* without a goal, with the failure "I cannot figure this out in the time I
\* have."; it does not fail in another way.
Cex_C32_SearchStops ==
    Stopped => (pc = "done" \/ output = <<CannotFigureOut>>)

----------------------------------------------------------------------------
(* Claims: the expose cost of the heuristic *)

\* The number of objects above the label x in its stack.
ObjectsAbove(x, s) ==
    LET stack == s.stacks[ToNumber(findStack(x, s)) + 1]
    IN  Len(stack) - 1 - findHeight(x, stack)

\* The expose cost as described: 4 for every object above but 1 less, 0 when
\* there is none, and 1 more when the arm holds something.
ExposeCost(x, s) ==
    (IF ObjectsAbove(x, s) >= 1 THEN 4 * ObjectsAbove(x, s) - 1 ELSE 0)
    + (IF s.holding # Null THEN 1 ELSE 0)

\* C33: for every object x standing in a stack with k objects above it, the
\* expose cost of x is 4 * k - 1 when k >= 1 and 0 when k = 0, with 1 added
\* when the arm holds an object.
Cex_C33_ExposeCost ==
    \A x \in LabelsIn(live) : costToExpose(x, x, live) = ExposeCost(x, live)

----------------------------------------------------------------------------
(* Claims: relative clauses *)

\* checkRelation was called for a label standing in a stack.
CheckedStanding == heard.kind = "check" /\ heard.label \in LabelsIn(live)

\* The column and the height of a standing label, both counted from 0.
ColumnOf(x) == ToNumber(findStack(x, live))
HeightOf(x) == findHeight(x, stacks[ColumnOf(x) + 1])

\* The labels of the columns in C, and of column c at the heights in H.
InColumnSet(C) ==
    {stacks[i + 1][j] : <<i, j>> \in {p \in (0..(Len(stacks) - 1)) \X (1..3) :
                                         p[1] \in C /\ p[2] <= Len(stacks[p[1] + 1])}}
AtHeights(c, H) ==
    {stacks[c + 1][j + 1] : j \in {k \in 0..(Len(stacks[c + 1]) - 1) : k \in H}}

\* The label matches the plain description d.
Matching(l, d) == filterLabels(<<l>>, d.size, d.color, d.form) # <<>>

\* The neighbourhoods that do not depend on the direction in the stack.
FlatNeighbourhood(relation, c, h, d) ==
    CASE relation = "leftof" -> InColumnSet((c + 1)..(Len(stacks) - 1))
      [] relation = "rightof" -> InColumnSet(0..(c - 1))
      [] relation = "beside" -> InColumnSet({c - 1, c + 1})
      [] relation = "inside" ->
           {l \in AtHeights(c, {h - 1}) : objects[l].form = "box"}
      [] relation = "ontop" ->
           IF h > 0 THEN AtHeights(c, {h - 1})
           ELSE IF d.form = "floor" THEN {Floor} ELSE {}
      [] OTHER -> {}

\* The neighbourhood as stated: above looks at the heights over h, under at
\* the heights below h.
StatedNeighbourhood(relation, c, h, d) ==
    CASE relation = "above" -> AtHeights(c, (h + 1)..3)
      [] relation = "under" -> AtHeights(c, 0..(h - 1))
      [] OTHER -> FlatNeighbourhood(relation, c, h, d)

\* The neighbourhood with the two directions the other way: above looks at
\* the heights below h, under at the heights over h.
Neighbourhood(relation, c, h, d) ==
    CASE relation = "above" -> AtHeights(c, 0..(h - 1))
      [] relation = "under" -> AtHeights(c, (h + 1)..3)
      [] OTHER -> FlatNeighbourhood(relation, c, h, d)

TheOrAny == heard.location.entity.quantifier \in {"the", "any"}

ReferentOf(u) == u.location.entity.object

\* Some label of the set N matches the referent of the call.
SomeMatching(N) == \E n \in N : Matching(n, ReferentOf(heard))

StatedExclusion(relation, c, h) ==
    CASE relation = "leftof" -> InColumnSet(0..c)
      [] relation = "rightof" -> InColumnSet(c..(Len(stacks) - 1))
      [] relation = "above" -> AtHeights(c, 0..h)
      [] relation = "under" -> AtHeights(c, h..3)
      [] OTHER -> {}

\* The exclusion region with the two directions the other way.
Exclusion(relation, c, h) ==
    CASE relation = "leftof" -> InColumnSet(0..c)
      [] relation = "rightof" -> InColumnSet(c..(Len(stacks) - 1))
      [] relation = "above" -> AtHeights(c, h..3)
      [] relation = "under" -> AtHeights(c, 0..h)
      [] OTHER -> {}

ForAll == heard.location.entity.quantifier = "all"

----------------------------------------------------------------------------
(* Claims: narration *)

\* The entry is a narration line of the loop of planInterpretation.
IsMoving(e) == e.kind = "narration" /\ e # AlreadyTrue

\* C36 as claimed: in a returned plan every pickup token has a narration line
\* just before it, and a narration line stands nowhere but just before a
\* pickup token.
Cex_C36_NarrationBeforePickup ==
    pc = "done" =>
        \A i \in 1..Len(plan) :
            /\ plan[i] = Token("p") => (i > 1 /\ IsMoving(plan[i - 1]))
            /\ IsMoving(plan[i]) => (i < Len(plan) /\ plan[i + 1] = Token("p"))

----------------------------------------------------------------------------
(* Claims: node comparison *)

\* The world of the i-th node the search has made from the start node.
NodeState(i) == StateOf(nodes[i], heap)

\* C37: for two nodes of one search, whose worlds are reachable from the same
\* start, compareNodes returns 0 exactly when the stacks are equal column by
\* column and height by height, the arms are equal and the held labels are
\* equal.
Thm_C37_NodeEquality ==
    \A i, j \in 1..Len(nodes) :
        (compareNodes(NodeState(i), NodeState(j)) = 0)
            <=> /\ NodeState(i).stacks = NodeState(j).stacks
                /\ NodeState(i).arm = NodeState(j).arm
                /\ NodeState(i).holding = NodeState(j).holding

\* The search has made two nodes of the same world, two nodes that differ in
\* the arm only, and two nodes with the same arm and different stacks.
Wit_C37_NodeEquality ==
    /\ \E i, j \in 1..Len(nodes) : i # j /\ compareNodes(NodeState(i), NodeState(j)) = 0
    /\ \E i, j \in 1..Len(nodes) :
          /\ NodeState(i).stacks = NodeState(j).stacks
          /\ NodeState(i).arm # NodeState(j).arm
    /\ \E i, j \in 1..Len(nodes) :
          /\ NodeState(i).arm = NodeState(j).arm
          /\ NodeState(i).holding # NodeState(j).holding
          /\ compareNodes(NodeState(i), NodeState(j)) = -1

----------------------------------------------------------------------------
(* Claims: history independence *)

\* This step interprets a fresh command: a text with that one parse is heard,
\* or a number selects it among the pending parses.
HearsFresh == pc # "search" /\ cmd' # NoCommand /\ Fresh(cmd')

\* What the interpreter makes of the command c in a session in which nothing
\* has been said.
FreshOutcome(c) == interpretCommand(c, live, IdlePre).res

\* C38: whatever has been said before, a fresh take, put or move command has
\* the outcome (the goal that is planned, the question or the error that is
\* printed) it has as the first utterance of a session in the same world.
Thm_C38_HistoryIndependent ==
    [][HearsFresh => InterpretedAndPlanned(cmd', FreshOutcome(cmd'))]_vars

\* A take command has been answered with a question in a session whose
\* earlier move command left the quantifier of its destination behind.
Wit_C38_HistoryIndependent ==
    /\ pc = "idle"
    /\ cmd # NoCommand /\ cmd.command = "take"
    /\ preRelatableQuantifier \in Quantifiers
    /\ preRelation = "holding"
    /\ Len(preMovableLabels) > 1

----------------------------------------------------------------------------
(* Claims: describing and achieving a relation *)

\* A description whose form is that of y: the floor, or any object.
ReferentFor(y) == IF y = Floor THEN FloorObj ELSE AnyObject

\* The labels checkRelation looks at for the label x standing in a stack and
\* a referent like y: the neighbourhood of x.
NeighbourhoodOf(x, y, relation) ==
    AsSet(objectsToCheck(Location(relation, Entity("the", ReferentFor(y))), live,
                         ColumnOf(x), stacks[ColumnOf(x) + 1], HeightOf(x)))

\* The pairs of a standing label and a standing label or the floor that the
\* oracle permits for the relation.
PermittedPairs(relation) ==
    {p \in LabelsIn(live) \X (LabelsIn(live) \cup {Floor}) :
        isPhysicallyCorrect(p[1], p[2], relation)}

\* C39: for every relation and every pair (x, y) the oracle permits, x
\* standing in a stack and y standing in a stack or the floor, y is in the
\* neighbourhood the resolver looks at for x exactly when the goal test finds
\* the literal relation(x, y) true in the same world.
Thm_C39_DescribeAchieveAgree ==
    \A relation \in BinaryRelations : \A p \in PermittedPairs(relation) :
        (p[2] \in NeighbourhoodOf(p[1], p[2], relation))
            <=> isLitTrue(Literal(relation, <<p[1], p[2]>>), live)

\* After some actions a permitted pair is related by above, another by
\* inside, and a label stands on the floor.
Wit_C39_DescribeAchieveAgree ==
    /\ trail # <<>>
    /\ \E p \in PermittedPairs("above") :
          /\ p[2] \in NeighbourhoodOf(p[1], p[2], "above")
          /\ isLitTrue(Literal("above", <<p[1], p[2]>>), live)
    /\ \E p \in PermittedPairs("ontop") :
          /\ p[2] = Floor
          /\ Floor \in NeighbourhoodOf(p[1], Floor, "ontop")
          /\ isLitTrue(Literal("ontop", <<p[1], Floor>>), live)

====
